---- MODULE Spec2Model ----
(***************************************************************************)
(* Streaming response renderer of the lucie repository.                    *)
(*                                                                         *)
(*   streamToSlack      src/mastra/slack/streaming.ts                      *)
(*   retrySlackUpdate   src/mastra/slack/streaming.ts                      *)
(*   streamToTerminal   src/mastra/agents/lucie-agents.ts                  *)
(*   handleNestedChunkEvents   src/unnamed/part_001 (../slack/chunks)      *)
(*   getStatusText      src/mastra/slack/status.ts                         *)
(*   formatName         src/mastra/slack/types.ts (../slack/utils)         *)
(*                                                                         *)
(* JavaScript strings are sequences of one-character strings, so that      *)
(* startsWith, split, charAt and += are computed and not assumed.          *)
(***************************************************************************)
EXTENDS Integers, Sequences, FiniteSets, TLC

(***************************************************************************)
(* Bounds of the model                                                     *)
(***************************************************************************)
\* longest chunk sequence a session consumes
MaxChunks == 2
\* largest number of timer ticks whose callback runs in one session
MaxTicks == 1

(***************************************************************************)
(* Strings                                                                 *)
(***************************************************************************)
\* the JavaScript value undefined; no string of characters equals it
Undefined == <<"undefined">>

\* JavaScript truthiness of a value that is a string or undefined
Truthy(s) == s # Undefined /\ s # <<>>

\* a ?? b
Nullish(a, b) == IF a # Undefined THEN a ELSE b

\* a || b
OrElse(a, b) == IF Truthy(a) THEN a ELSE b

LowerChars == <<"a","b","c","d","e","f","g","h","i","j","k","l","m",
                "n","o","p","q","r","s","t","u","v","w","x","y","z">>
UpperChars == <<"A","B","C","D","E","F","G","H","I","J","K","L","M",
                "N","O","P","Q","R","S","T","U","V","W","X","Y","Z">>

IsLower(c) == \E i \in 1..26 : LowerChars[i] = c
IsUpper(c) == \E i \in 1..26 : UpperChars[i] = c

\* String.prototype.toUpperCase on one character
ToUpperCase(c) ==
  IF IsLower(c) THEN UpperChars[CHOOSE i \in 1..26 : LowerChars[i] = c] ELSE c

\* s.startsWith(p)
StartsWith(s, p) == Len(s) >= Len(p) /\ SubSeq(s, 1, Len(p)) = p

\* s.includes(p)
Includes(s, p) ==
  \E i \in 1..(Len(s) - Len(p) + 1) : SubSeq(s, i, i + Len(p) - 1) = p

\* s.split(/[seps]/): the segments between separator characters
RECURSIVE SplitFrom(_, _, _, _)
SplitFrom(s, seps, i, cur) ==
  IF i > Len(s) THEN <<cur>>
  ELSE IF s[i] \in seps THEN <<cur>> \o SplitFrom(s, seps, i + 1, <<>>)
  ELSE SplitFrom(s, seps, i + 1, Append(cur, s[i]))
Split(s, seps) == SplitFrom(s, seps, 1, <<>>)

\* words.join(' ')
RECURSIVE Join(_)
Join(words) ==
  IF Len(words) = 0 THEN <<>>
  ELSE IF Len(words) = 1 THEN words[1]
  ELSE words[1] \o <<" ">> \o Join(Tail(words))

\* w.charAt(0).toUpperCase() + w.slice(1)
Capitalize(w) == IF Len(w) = 0 THEN <<>> ELSE <<ToUpperCase(w[1])>> \o Tail(w)

\* s.replace(/([a-z])([A-Z])/g, '$1 $2')
RECURSIVE CamelToSpaced(_)
CamelToSpaced(s) ==
  IF Len(s) < 2 THEN s
  ELSE IF IsLower(s[1]) /\ IsUpper(s[2])
       THEN <<s[1], " ">> \o CamelToSpaced(Tail(s))
       ELSE <<s[1]>> \o CamelToSpaced(Tail(s))

\* a variant of formatName that returns the identifier as it is
formatName_raw(id) == id

\* formatName of utils
formatName(id) ==
  LET words == Split(CamelToSpaced(id), {"-", "_"})
  IN Join([i \in 1..Len(words) |-> Capitalize(words[i])])

\* a variant of formatChunkType that returns the kind as it is
formatChunkType_raw(type) == type

\* formatChunkType of status
formatChunkType(type) ==
  LET words == Split(type, {"-"})
  IN Join([i \in 1..Len(words) |-> Capitalize(words[i])])

(***************************************************************************)
(* String literals of the source                                           *)
(***************************************************************************)
KindStart == <<"s","t","a","r","t">>
KindTextDelta == <<"t","e","x","t","-","d","e","l","t","a">>
KindToolCall == <<"t","o","o","l","-","c","a","l","l">>
KindToolOutput == <<"t","o","o","l","-","o","u","t","p","u","t">>
KindWorkflowExecutionStart ==
  <<"w","o","r","k","f","l","o","w","-","e","x","e","c","u","t","i","o","n",
    "-","s","t","a","r","t">>
KindWorkflowStepStart ==
  <<"w","o","r","k","f","l","o","w","-","s","t","e","p","-","s","t","a","r","t">>
AgentEventPrefix ==
  <<"a","g","e","n","t","-","e","x","e","c","u","t","i","o","n","-",
    "e","v","e","n","t","-">>
WorkflowEventPrefix ==
  <<"w","o","r","k","f","l","o","w","-","e","x","e","c","u","t","i","o","n",
    "-","e","v","e","n","t","-">>
ToolPrefix == <<"t","o","o","l","-">>
WorkflowPrefix == <<"w","o","r","k","f","l","o","w","-">>
AgentWord == <<"a","g","e","n","t">>
StepLiteral == <<"s","t","e","p">>
\* a variant of StartingLiteral: another placeholder
StartingLiteral_step == <<"s","t","e","p">>
\* `state.stepName = 'Starting'`
StartingLiteral == <<"S","t","a","r","t","i","n","g">>
Dots == <<".",".",".">>
ColonSpace == <<":"," ">>

\* "Sorry, I couldn't generate a response."
FallbackText ==
  <<"S","o","r","r","y",","," ","I"," ","c","o","u","l","d","n","'","t"," ",
    "g","e","n","e","r","a","t","e"," ","a"," ","r","e","s","p","o","n","s",
    "e",".">>

\* the icon sets; an icon is one element of a string.  The two icons that
\* TOOL_ICONS and WORKFLOW_ICONS share keep one name each.
SPINNER == <<"sp0","sp1","sp2","sp3","sp4","sp5","sp6","sp7","sp8","sp9">>
TOOL_ICONS == <<"cycle","gear","wrench","zap">>
WORKFLOW_ICONS == <<"clipboard","zap","cycle","sparkles">>

(***************************************************************************)
(* Display State (StreamState) and the Status Renderer                     *)
(***************************************************************************)
\* const state: StreamState = { text: '', chunkType: 'start' }
InitialState ==
  [text |-> <<>>, chunkType |-> KindStart, toolName |-> Undefined,
   workflowName |-> Undefined, stepName |-> Undefined, agentName |-> Undefined]

\* a variant of IconAt that always takes the first icon
IconAt_first(arr, frame) == arr[1]

\* arr[frame % arr.length] of a JavaScript array (indices from 0)
IconAt(arr, frame) == arr[(frame % Len(arr)) + 1]

getStatusText(state, frame) ==
  LET spinner == IconAt(SPINNER, frame)
      toolIcon == IconAt(TOOL_ICONS, frame)
      workflowIcon == IconAt(WORKFLOW_ICONS, frame)
      type == state.chunkType
      label == formatChunkType(type)
  IN IF StartsWith(type, ToolPrefix) /\ Truthy(state.toolName)
       THEN <<toolIcon, " ">> \o label \o ColonSpace \o state.toolName \o Dots
     ELSE IF StartsWith(type, WorkflowPrefix) /\ Truthy(state.stepName)
       THEN <<workflowIcon, " ">> \o label \o ColonSpace \o state.stepName \o Dots
     ELSE IF Includes(type, AgentWord) /\ Truthy(state.agentName)
       THEN <<spinner, " ">> \o label \o ColonSpace \o state.agentName \o Dots
     ELSE <<spinner, " ">> \o label \o Dots

(***************************************************************************)
(* Chunks                                                                  *)
(*                                                                         *)
(* A chunk is { type, payload? }.  The payload is a record of the fields   *)
(* the consumers read; a field the chunk does not carry is Undefined.      *)
(*   payload.text                    text-delta                            *)
(*   payload.toolName                tool-call                             *)
(*   payload.output                  tool-output                           *)
(*   payload.name, .workflowId       workflow-execution-start              *)
(*   payload.type, payload.payload   the inner event of a nested chunk     *)
(***************************************************************************)
\* chunk.payload.payload (and output.payload) when it is absent
NoInner == [present |-> FALSE, text |-> Undefined, id |-> Undefined,
            stepId |-> Undefined]

\* an inner payload object with the given fields
Inner(text, id, stepId) ==
  [present |-> TRUE, text |-> text, id |-> id, stepId |-> stepId]

\* chunk.payload.output when it is absent (isObject: truthy and of type object)
NoOutput == [isObject |-> FALSE, type |-> Undefined, payload |-> NoInner]

\* a payload object none of whose fields is set
EmptyPayload ==
  [isObject |-> TRUE, text |-> Undefined, toolName |-> Undefined,
   name |-> Undefined, workflowId |-> Undefined, type |-> Undefined,
   output |-> NoOutput, payload |-> NoInner]

Chunk(type, payload) == [type |-> type, hasPayload |-> TRUE, payload |-> payload]

\* a chunk without payload field
BareChunk(type) == [type |-> type, hasPayload |-> FALSE, payload |-> EmptyPayload]

TextDeltaChunk(text) == Chunk(KindTextDelta, [EmptyPayload EXCEPT !.text = text])

ToolCallChunk(toolName) ==
  Chunk(KindToolCall, [EmptyPayload EXCEPT !.toolName = toolName])

\* tool-output whose payload.output is the object { type, payload }
ToolOutputChunk(type, inner) ==
  Chunk(KindToolOutput,
        [EmptyPayload EXCEPT !.output =
           [isObject |-> TRUE, type |-> type, payload |-> inner]])

\* tool-output whose payload.output is not an object (a string, null)
PlainToolOutputChunk == Chunk(KindToolOutput, EmptyPayload)

WorkflowStartChunk(name, workflowId) ==
  Chunk(KindWorkflowExecutionStart,
        [EmptyPayload EXCEPT !.name = name, !.workflowId = workflowId])

\* a chunk of kind <prefix><innerType> whose payload is the inner event
NestedChunk(prefix, innerType, inner) ==
  Chunk(prefix \o innerType,
        [EmptyPayload EXCEPT !.type = innerType, !.payload = inner])

(***************************************************************************)
(* Nested-Event Unwrapper                                                  *)
(***************************************************************************)
\* a variant of appendText that keeps the increment alone
appendText_replaces(text, delta) == delta

\* a variant of appendText that puts the increment in front
appendText_prepends(text, delta) == delta \o text

\* state.text += text
appendText(text, delta) == text \o delta

\* a variant of handleAgentEvent that ignores the inner event
handleAgentEvent_ignores(chunk, state) == state

\* the branch for kinds that start with 'agent-execution-event-'
handleAgentEvent(chunk, state) ==
  LET innerChunk == chunk.payload
      payload == innerChunk.payload
  IN IF innerChunk.isObject /\ innerChunk.type = KindTextDelta
       THEN IF payload.present /\ Truthy(payload.text)
              THEN [state EXCEPT !.text = appendText(@, payload.text),
                                 !.chunkType = KindTextDelta]
              ELSE state
       ELSE state

\* the branch for kinds that start with 'workflow-execution-event-'
handleWorkflowEvent(chunk, state) ==
  LET innerChunk == chunk.payload
      payload == innerChunk.payload
  IN IF innerChunk.isObject /\ innerChunk.type = KindWorkflowStepStart
       THEN [state EXCEPT
               !.chunkType = KindWorkflowStepStart,
               !.stepName = formatName(
                  Nullish(IF payload.present THEN payload.id ELSE Undefined,
                          StepLiteral))]
       ELSE state

\* a variant of handleNestedChunkEvents that records the kind of every chunk
handleNestedChunkEvents_recordsKind(chunk, state) ==
  [state EXCEPT !.chunkType = chunk.type]

\* handleNestedChunkEvents(chunk, state): the state it leaves
handleNestedChunkEvents(chunk, state) ==
  IF ~chunk.hasPayload THEN state
  ELSE IF StartsWith(chunk.type, AgentEventPrefix)
    THEN handleAgentEvent(chunk, state)
  ELSE IF StartsWith(chunk.type, WorkflowEventPrefix)
    THEN handleWorkflowEvent(chunk, state)
  ELSE state

(***************************************************************************)
(* The body of the consumers' for-await loops, up to its first await       *)
(***************************************************************************)
\* output.payload?.id and output.payload?.stepId
OptId(p) == IF p.present THEN p.id ELSE Undefined
OptStepId(p) == IF p.present THEN p.stepId ELSE Undefined

\* a variant of stepIdentifier that looks at stepId before id
stepIdentifier_stepIdFirst(payload) ==
  OrElse(OrElse(OptStepId(payload), OptId(payload)), StepLiteral)

\* output.payload?.id || output.payload?.stepId || 'step'
stepIdentifier(payload) ==
  OrElse(OrElse(OptId(payload), OptStepId(payload)), StepLiteral)

\* a variant of slackConsume that stores the kind and pulses for every chunk
slackConsume_alwaysPulses(chunk, state) ==
  [state |-> [state EXCEPT !.chunkType = chunk.type], pulse |-> TRUE]

\* a variant of renderedState where the forced render reads the kind the
\* display state had before the chunk
renderedState_stale(before, after) ==
  [after EXCEPT !.chunkType = before.chunkType]

\* the display state updateSlack() reads when the loop body calls it: the
\* assignments of the iteration precede the call
renderedState(before, after) == after

\* streamToSlack: one iteration.  pulse: the iteration goes on with frame++,
\* await updateSlack() and await sleep(...).
slackConsume(chunk, state) ==
  LET s0 == [state EXCEPT !.chunkType = chunk.type]
      output == chunk.payload.output
  IN CASE chunk.type = KindTextDelta ->
            [state |-> IF Truthy(chunk.payload.text)
                         THEN [s0 EXCEPT !.text = appendText(@, chunk.payload.text)]
                         ELSE s0,
             pulse |-> FALSE]
       [] chunk.type = KindToolCall ->
            [state |-> [s0 EXCEPT !.toolName = formatName(chunk.payload.toolName)],
             pulse |-> TRUE]
       [] chunk.type = KindToolOutput ->
            IF output.isObject
              THEN LET s1 == IF Truthy(output.type)
                               THEN [s0 EXCEPT !.chunkType = output.type]
                               ELSE s0
                   IN IF output.type = KindWorkflowStepStart
                        THEN [state |-> [s1 EXCEPT !.stepName =
                                 formatName(stepIdentifier(output.payload))],
                              pulse |-> TRUE]
                        ELSE [state |-> s1, pulse |-> FALSE]
              ELSE [state |-> s0, pulse |-> FALSE]
       [] chunk.type = KindWorkflowExecutionStart ->
            [state |-> [s0 EXCEPT
                          !.workflowName = formatName(OrElse(chunk.payload.name,
                                                             chunk.payload.workflowId)),
                          !.stepName = StartingLiteral],
             pulse |-> FALSE]
       [] OTHER -> [state |-> s0, pulse |-> FALSE]

\* a variant of stdoutWrite that keeps the text back
stdoutWrite_buffers(text) == <<>>

\* process.stdout.write(chunk.payload.text): what reaches the output stream
stdoutWrite(text) == text

\* streamToTerminal: one iteration.  written: what process.stdout.write got.
terminalConsume(chunk, state) ==
  LET s0 == handleNestedChunkEvents(chunk, [state EXCEPT !.chunkType = chunk.type])
      output == chunk.payload.output
  IN CASE chunk.type = KindTextDelta ->
            IF Truthy(chunk.payload.text)
              THEN [state |-> [s0 EXCEPT !.text = appendText(@, chunk.payload.text)],
                    written |-> stdoutWrite(chunk.payload.text)]
              ELSE [state |-> s0, written |-> <<>>]
       [] chunk.type = KindToolCall ->
            [state |-> [s0 EXCEPT !.toolName = formatName(chunk.payload.toolName)],
             written |-> <<>>]
       [] chunk.type = KindToolOutput ->
            IF output.isObject
              THEN LET s1 == IF Truthy(output.type)
                               THEN [s0 EXCEPT !.chunkType = output.type]
                               ELSE s0
                   IN IF output.type = KindWorkflowStepStart
                        THEN [state |-> [s1 EXCEPT !.stepName =
                                 formatName(stepIdentifier(output.payload))],
                              written |-> <<>>]
                        ELSE [state |-> s1, written |-> <<>>]
              ELSE [state |-> s0, written |-> <<>>]
       [] chunk.type = KindWorkflowExecutionStart ->
            [state |-> [s0 EXCEPT
                          !.workflowName = formatName(OrElse(chunk.payload.name,
                                                             chunk.payload.workflowId)),
                          !.stepName = StartingLiteral],
             written |-> <<>>]
       [] OTHER -> [state |-> s0, written |-> <<>>]

(***************************************************************************)
(* Inputs of the sessions                                                  *)
(***************************************************************************)
KindFinish == <<"f","i","n","i","s","h">>
KindObject == <<"o","b","j","e","c","t">>
ReverseText == <<"r","e","v","e","r","s","e","T","e","x","t">>
FetchData == <<"f","e","t","c","h","_","d","a","t","a">>
AnalyzeText == <<"a","n","a","l","y","z","e","-","t","e","x","t">>
MyFlow == <<"m","y","_","f","l","o","w">>
Hel == <<"H","e","l">>
Lo == <<"l","o","!">>
Sub == <<"s","u","b">>
Blank == <<" ">>

\* options.agentName
AgentName == <<"l","u","c","i","e">>

\* the message of the failure of the chunk sequence, and of the initial post
UpstreamMessage == <<"u","p","s","t","r","e","a","m"," ","f","a","i","l","e","d">>
PostMessageFailure == <<"c","h","a","n","n","e","l","_","n","o","t","_","f","o","u","n","d">>

\* `Agent "${agentName}" not found`
NotFoundMessage ==
  <<"A","g","e","n","t"," ","\"">> \o AgentName \o
  <<"\""," ","n","o","t"," ","f","o","u","n","d">>

\* a variant of ErrorText that leaves the failure's description out
ErrorText_generic(message) == <<"cross"," ","E","r","r","o","r">>

\* `<cross mark> Error: ${error.message}`
ErrorText(message) == <<"cross"," ","E","r","r","o","r",":"," ">> \o message

\* the ts of the message chat.postMessage created
MessageTs == <<"ts1">>

\* chat.postMessage creates a new message at every call: the ts it returns
\* to the second call of streamToSlack is not the one it returned to the first
MessageTsOf(session) == IF session = 1 THEN MessageTs ELSE <<"ts2">>

\* the chunks fullStream may deliver to a terminal session
TerminalChunks ==
  { TextDeltaChunk(Hel), TextDeltaChunk(Lo), TextDeltaChunk(Blank),
    TextDeltaChunk(<<>>),
    ToolCallChunk(ReverseText),
    ToolCallChunk(FetchData),
    ToolOutputChunk(KindWorkflowStepStart, Inner(Undefined, AnalyzeText, Undefined)),
    PlainToolOutputChunk,
    WorkflowStartChunk(Undefined, MyFlow),
    WorkflowStartChunk(AnalyzeText, MyFlow),
    NestedChunk(AgentEventPrefix, KindTextDelta, Inner(Sub, Undefined, Undefined)),
    NestedChunk(WorkflowEventPrefix, KindWorkflowStepStart,
                Inner(Undefined, AnalyzeText, Undefined)),
    BareChunk(KindObject),
    Chunk(KindFinish, EmptyPayload) }

\* the chunks fullStream may deliver to a chat session: one chunk for each
\* way the loop body of streamToSlack can take, two texts to tell orders apart
SlackChunks ==
  { TextDeltaChunk(Hel), TextDeltaChunk(Blank),
    ToolCallChunk(ReverseText),
    ToolOutputChunk(KindWorkflowStepStart, Inner(Undefined, AnalyzeText, Undefined)),
    ToolOutputChunk(KindFinish, NoInner),
    WorkflowStartChunk(Undefined, MyFlow),
    NestedChunk(AgentEventPrefix, KindTextDelta, Inner(Sub, Undefined, Undefined)),
    Chunk(KindFinish, EmptyPayload) }

(***************************************************************************)
(* State                                                                   *)
(***************************************************************************)
VARIABLES
  host,            \* "slack": streamToSlack runs; "terminal": streamToTerminal
  agentRegistered, \* mastra.getAgent(agentName) returns an agent
  self,            \* the call of streamToSlack whose variables are listed below
  peer,            \* the variables of the other call of streamToSlack
  route,           \* the webhook handler: its request, position and response
  cli,             \* the conversation loop of the CLI: position, identifiers
  pc,              \* where the consumer is suspended
  state,           \* const state: StreamState
  consumed,        \* the chunks fullStream has delivered so far, in order
  messageTs,       \* let messageTs
  frame,           \* let frame
  animationTimer,  \* let animationTimer: TRUE while it holds an interval
  isFinished,      \* let isFinished
  tickQueued,      \* the interval elapsed and its callback is due to run
  ticks,           \* number of times the interval elapsed
  inflight,        \* chat.update calls started and not yet settled
  statusCalls,     \* number of chat.update calls updateSlack started
  finalCalls,      \* number of chat.update calls retrySlackUpdate started
  surface,         \* what the message with ts MessageTs shows
  posts,           \* the texts of the chat.postMessage calls, in order
  attempt,         \* retrySlackUpdate: let attempt
  error,           \* the error the catch block caught, Undefined if none
  finalText,       \* the text handed to sendFinalMessage, Undefined if none
  stdout,          \* terminal: the characters written to process.stdout
  stderr,          \* terminal: the messages of console.error
  stopCalls,       \* number of calls of stopAnimation
  finalFailures,   \* number of rejected chat.update calls of retrySlackUpdate
  finalDelivered,  \* a chat.update call of retrySlackUpdate has resolved
  pulseShown,      \* since the tool call or workflow step in progress was
                   \* consumed, the message has shown a status with its name
  sleeps           \* number of calls of sleep() in the loop of streamToSlack

envVars == <<host, agentRegistered, self, peer, route, cli>>
consumerVars == <<pc, state, consumed, messageTs, attempt, error, finalText>>
timerVars == <<frame, animationTimer, isFinished, tickQueued, ticks>>
netVars == <<inflight, statusCalls, finalCalls, surface, posts>>
termVars == <<stdout, stderr>>
histVars == <<stopCalls, finalFailures, finalDelivered, pulseShown, sleeps>>
vars == <<envVars, consumerVars, timerVars, netVars, termVars, histVars>>

\* the message before chat.postMessage created it
NoSurface == [text |-> Undefined, seq |-> 0, kind |-> "none"]

\* the variables of a call of streamToSlack that has not started
IdleSession ==
  [pc |-> "idle", state |-> InitialState, consumed |-> <<>>,
   messageTs |-> Undefined, attempt |-> 0, error |-> Undefined,
   finalText |-> Undefined, frame |-> 0, animationTimer |-> FALSE,
   isFinished |-> FALSE, tickQueued |-> FALSE, ticks |-> 0, inflight |-> {},
   statusCalls |-> 0, finalCalls |-> 0, surface |-> NoSurface, posts |-> <<>>,
   stopCalls |-> 0, finalFailures |-> 0, finalDelivered |-> FALSE,
   pulseShown |-> FALSE, sleeps |-> 0]

\* no request has reached the webhook handler
NoRoute ==
  [pc |-> "none", invoked |-> FALSE, caught |-> FALSE]

\* no CLI is running
NoCli == [pc |-> "none", messageCount |-> 0, calls |-> <<>>, caught |-> 0]

InitCommon ==
  /\ agentRegistered \in BOOLEAN
  /\ self = 1
  /\ peer = IdleSession
  /\ route = NoRoute
  /\ cli = NoCli
  /\ pc = "idle"
  /\ state = InitialState
  /\ consumed = <<>>
  /\ messageTs = Undefined
  /\ frame = 0
  /\ animationTimer = FALSE
  /\ isFinished = FALSE
  /\ tickQueued = FALSE
  /\ ticks = 0
  /\ inflight = {}
  /\ statusCalls = 0
  /\ finalCalls = 0
  /\ surface = NoSurface
  /\ posts = <<>>
  /\ attempt = 0
  /\ error = Undefined
  /\ finalText = Undefined
  /\ stdout = <<>>
  /\ stderr = <<>>
  /\ stopCalls = 0
  /\ finalFailures = 0
  /\ finalDelivered = FALSE
  /\ pulseShown = FALSE
  /\ sleeps = 0

Init == host \in {"slack", "terminal"} /\ InitCommon

(***************************************************************************)
(* streamToSlack: helpers                                                  *)
(***************************************************************************)
\* retrySlackUpdate: maxAttempts = 3
MaxAttempts == 3

\* a variant of stopAnimation that does nothing
stopAnimation_noop(finished, timer) ==
  [isFinished |-> finished, animationTimer |-> timer]

\* a variant of stopAnimation that clears the timer and leaves the flag
stopAnimation_leavesFlag(finished, timer) ==
  [isFinished |-> finished,
   animationTimer |-> IF timer THEN FALSE ELSE timer]

\* a variant of stopAnimation that sets the flag and leaves the timer
stopAnimation_leavesTimer(finished, timer) ==
  [isFinished |-> TRUE, animationTimer |-> timer]

\* a variant of stopAnimation that flips the flag
stopAnimation_flipsFlag(finished, timer) ==
  [isFinished |-> ~finished,
   animationTimer |-> IF timer THEN FALSE ELSE timer]

\* stopAnimation, on the pair (isFinished, animationTimer)
stopAnimation(finished, timer) ==
  [isFinished |-> TRUE,
   animationTimer |-> IF timer THEN FALSE ELSE timer]

\* a variant of agentFound that finds every agent
agentFound_always(registered) == TRUE

\* `if (!agent) throw new Error(...)`: FALSE when getAgent returned nothing
agentFound(registered) == registered

\* updateSlack: FALSE when it returns at `if (!messageTs || isFinished) return`
updateSlackStarts(ts, finished) == ~(ts = Undefined \/ finished)

\* a variant of tickRuns whose callback never does anything
tickRuns_never(finished) == FALSE

\* the interval callback: `if (!isFinished)`
tickRuns(finished) == ~finished

\* state.text || "Sorry, I couldn't generate a response."
finalResponse(text) == OrElse(text, FallbackText)

\* a variant of retryContinues that is off by one
retryContinues_offByOne(a) == a <= MaxAttempts

\* retrySlackUpdate: the loop condition `attempt < maxAttempts`
retryContinues(a) == a < MaxAttempts

\* retrySlackUpdate: `if (attempt < maxAttempts - 1) await sleep(500)`
retrySleeps(a) == a < MaxAttempts - 1

\* a variant of increment that skips a frame
increment_byTwo(n) == n + 2

\* `frame++`
increment(n) == n + 1

\* the calls of sleep() the consumer makes on its way to position after
sleepCalls(after) == IF after = "pacing" THEN 1 ELSE 0

\* a variant of AfterPulse that goes on to the next chunk without the delay
AfterPulse_noDelay == "streaming"

\* where the consumer is once the awaited updateSlack() of a tool call or
\* workflow step returned: at `await sleep(TOOL_DISPLAY_DELAY)` or
\* `await sleep(STEP_DISPLAY_DELAY)`
AfterPulse == "pacing"

\* a variant of AfterRenderFailure where a rejected render makes the loop go
\* on to the next chunk without the delay
AfterRenderFailure_skipsDelay == "streaming"

\* a variant of AfterRenderFailure where the rejection leaves updateSlack and
\* ends the loop
AfterRenderFailure_raises == "threw"

\* updateSlack: `catch { // Ignore rate limits }`: after a rejected call the
\* consumer is where it is after a resolved one
AfterRenderFailure == AfterPulse

\* a variant of Request where every chat.update call names the message of the
\* first call of streamToSlack
Request_firstHandle(kind, text, ts, awaited) ==
  [ts |-> MessageTs, seq |-> statusCalls + finalCalls + 1, kind |-> kind,
   text |-> text, awaited |-> awaited]

\* a chat.update call; seq numbers the calls in the order they are made
Request(kind, text, ts, awaited) ==
  [ts |-> ts, seq |-> statusCalls + finalCalls + 1, kind |-> kind,
   text |-> text, awaited |-> awaited]

\* a variant of AfterFinal where streamToSlack never gets past the final write
AfterFinal_stuck(err) == "final"

\* a variant of AfterFinal where a final write that returned always ends the
\* session with a throw
AfterFinal_raises(err) == "threw"

\* where streamToSlack ends after sendFinalMessage returned: the try block
\* returns, the catch block rethrows the error
AfterFinal(err) == IF err = Undefined THEN "done" ELSE "threw"

\* retrySlackUpdate from the loop condition with attempt = a
RetryLoop(a, text, ts, err) ==
  /\ attempt' = a
  /\ IF retryContinues(a)
       THEN /\ inflight' = inflight \cup {Request("final", text, ts, TRUE)}
            /\ finalCalls' = finalCalls + 1
            /\ pc' = "final"
       ELSE /\ pc' = AfterFinal(err)
            /\ UNCHANGED <<inflight, finalCalls>>

\* sendFinalMessage(text)
sendFinalMessage(text, ts, err) ==
  /\ finalText' = text
  /\ RetryLoop(0, text, ts, err)

\* a variant of placeholderPosted that takes every handle for a message
placeholderPosted_always(ts) == TRUE

\* a variant of placeholderPosted where the catch block always posts a new
\* message
placeholderPosted_never(ts) == FALSE

\* the catch block: `if (messageTs)`
placeholderPosted(ts) == Truthy(ts)

\* the catch block up to its await; ts and timer are messageTs and
\* animationTimer at the throw
CatchBlock(err, ts, timer) ==
  /\ error' = err
  /\ isFinished' = stopAnimation(isFinished, timer).isFinished
  /\ animationTimer' = stopAnimation(isFinished, timer).animationTimer
  /\ stopCalls' = stopCalls + 1
  /\ IF placeholderPosted(ts)
       THEN /\ sendFinalMessage(ErrorText(err), ts, err)
            /\ posts' = posts
       ELSE /\ posts' = Append(posts, ErrorText(err))
            /\ pc' = "errorPost"
            /\ UNCHANGED <<finalText, attempt, inflight, finalCalls>>

\* what a settled chat.update call leaves on the message
Shown(r) == [text |-> r.text, seq |-> r.seq, kind |-> r.kind]

\* the name the status of a tool call or workflow step shows
PulseName(s) == IF s.chunkType = KindToolCall THEN s.toolName ELSE s.stepName

\* the chunks whose case in streamToSlack awaits updateSlack() and sleep:
\* `case 'tool-call'` and `output.type === 'workflow-step-start'`
IsPulseChunk(c) ==
  \/ c.type = KindToolCall
  \/ /\ c.type = KindToolOutput /\ c.payload.output.isObject
     /\ c.payload.output.type = KindWorkflowStepStart

\* the consumer is in the iteration of a tool call or workflow step, or has
\* finished it and not yet taken the next chunk
InPulseWindow ==
  /\ pc \in {"render", "pacing", "streaming"}
  /\ consumed # <<>>
  /\ IsPulseChunk(consumed[Len(consumed)])

\* pulseShown once the message shows sf
PulseShownWith(sf) ==
  pulseShown \/ (InPulseWindow /\ sf.kind = "status"
                   /\ Includes(sf.text, PulseName(state)))

(***************************************************************************)
(* streamToSlack: the consumer                                             *)
(***************************************************************************)
\* slackClient.chat.postMessage({ text: getStatusText(state, 0) }) is called
BeginSession ==
  /\ host = "slack" /\ pc = "idle"
  /\ pc' = "posting"
  /\ posts' = Append(posts, getStatusText(state, 0))
  /\ UNCHANGED <<envVars, state, consumed, messageTs, attempt, error, finalText,
                 timerVars, inflight, statusCalls, finalCalls, surface, termVars, histVars>>

\* the post resolves: messageTs, setInterval, getAgent, agent.stream is called
PostInitialOk ==
  /\ host = "slack" /\ pc = "posting"
  /\ messageTs' = MessageTsOf(self)
  /\ surface' = [text |-> posts[Len(posts)], seq |-> 0, kind |-> "status"]
  /\ IF agentFound(agentRegistered)
       THEN /\ animationTimer' = TRUE
            /\ pc' = "opening"
            /\ UNCHANGED <<isFinished, error, finalText, attempt, inflight,
                           finalCalls, posts, stopCalls>>
       ELSE CatchBlock(NotFoundMessage, MessageTsOf(self), TRUE)
  /\ UNCHANGED <<envVars, state, consumed, frame, tickQueued, ticks,
                 statusCalls, termVars, finalFailures, finalDelivered,
                 pulseShown, sleeps>>

\* the post rejects
PostInitialFail ==
  /\ host = "slack" /\ pc = "posting"
  /\ CatchBlock(PostMessageFailure, messageTs, animationTimer)
  /\ UNCHANGED <<envVars, state, consumed, messageTs, frame, tickQueued, ticks,
                 statusCalls, surface, termVars, finalFailures, finalDelivered,
                 pulseShown, sleeps>>

\* agent.stream resolves
StreamOpened ==
  /\ host = "slack" /\ pc = "opening"
  /\ pc' = "streaming"
  /\ UNCHANGED <<envVars, state, consumed, messageTs, attempt, error, finalText,
                 timerVars, netVars, termVars, histVars>>

\* agent.stream rejects
StreamOpenFail ==
  /\ host = "slack" /\ pc = "opening"
  /\ CatchBlock(UpstreamMessage, messageTs, animationTimer)
  /\ UNCHANGED <<envVars, state, consumed, messageTs, frame, tickQueued, ticks,
                 statusCalls, surface, termVars, finalFailures, finalDelivered,
                 pulseShown, sleeps>>

\* fullStream delivers chunk c: the loop body up to its first await
ConsumeChunk(c) ==
  /\ host = "slack" /\ pc = "streaming"
  /\ Len(consumed) < MaxChunks
  /\ consumed' = Append(consumed, c)
  /\ LET r == slackConsume(c, state)
     IN /\ state' = r.state
        /\ IF r.pulse
             THEN /\ frame' = increment(frame)
                  /\ IF updateSlackStarts(messageTs, isFinished)
                       THEN /\ inflight' = inflight \cup
                                 {Request("status",
                                          getStatusText(
                                            renderedState(state, r.state),
                                            increment(frame)),
                                          messageTs, TRUE)}
                            /\ statusCalls' = statusCalls + 1
                            /\ pc' = "render"
                       ELSE /\ pc' = AfterPulse
                            /\ UNCHANGED <<inflight, statusCalls>>
                  /\ sleeps' = IF updateSlackStarts(messageTs, isFinished)
                                 THEN sleeps
                                 ELSE sleeps + sleepCalls(AfterPulse)
             ELSE UNCHANGED <<frame, inflight, statusCalls, pc, sleeps>>
        /\ pulseShown' = (r.pulse /\ surface.kind = "status"
                            /\ Includes(surface.text, PulseName(r.state)))
  /\ UNCHANGED <<envVars, messageTs, attempt, error, finalText, animationTimer,
                 isFinished, tickQueued, ticks, finalCalls, surface, posts,
                 termVars, stopCalls, finalFailures, finalDelivered>>

\* the awaited updateSlack() of a tool call or workflow step settles; a
\* rejection is caught inside updateSlack
RenderOk(r) ==
  /\ pc = "render" /\ r \in inflight /\ r.awaited
  /\ inflight' = inflight \ {r}
  /\ surface' = Shown(r)
  /\ pulseShown' = PulseShownWith(Shown(r))
  /\ pc' = AfterPulse
  /\ sleeps' = sleeps + sleepCalls(AfterPulse)
  /\ UNCHANGED <<envVars, state, consumed, messageTs, attempt, error, finalText,
                 timerVars, statusCalls, finalCalls, posts, termVars, stopCalls,
                 finalFailures, finalDelivered>>

RenderFail(r) ==
  /\ pc = "render" /\ r \in inflight /\ r.awaited
  /\ inflight' = inflight \ {r}
  /\ pc' = AfterRenderFailure
  /\ sleeps' = sleeps + sleepCalls(AfterRenderFailure)
  /\ UNCHANGED <<envVars, state, consumed, messageTs, attempt, error, finalText,
                 timerVars, statusCalls, finalCalls, surface, posts, termVars,
                 stopCalls, finalFailures, finalDelivered, pulseShown>>

\* sleep(TOOL_DISPLAY_DELAY) or sleep(STEP_DISPLAY_DELAY) resolves
PacingDone ==
  /\ pc = "pacing"
  /\ pc' = "streaming"
  /\ UNCHANGED <<envVars, state, consumed, messageTs, attempt, error, finalText,
                 timerVars, netVars, termVars, histVars>>

\* fullStream throws
StreamFail ==
  /\ host = "slack" /\ pc = "streaming"
  /\ CatchBlock(UpstreamMessage, messageTs, animationTimer)
  /\ pulseShown' = FALSE
  /\ sleeps' = sleeps
  /\ UNCHANGED <<envVars, state, consumed, messageTs, frame, tickQueued, ticks,
                 statusCalls, surface, termVars, finalFailures, finalDelivered>>

\* fullStream ends: stopAnimation(); await sendFinalMessage(...)
StreamEnd ==
  /\ host = "slack" /\ pc = "streaming"
  /\ isFinished' = stopAnimation(isFinished, animationTimer).isFinished
  /\ animationTimer' = stopAnimation(isFinished, animationTimer).animationTimer
  /\ stopCalls' = stopCalls + 1
  /\ sendFinalMessage(finalResponse(state.text), messageTs, error)
  /\ pulseShown' = FALSE
  /\ sleeps' = sleeps
  /\ UNCHANGED <<envVars, state, consumed, messageTs, error, frame, tickQueued,
                 ticks, statusCalls, surface, posts, termVars, finalFailures, finalDelivered>>

(***************************************************************************)
(* retrySlackUpdate                                                        *)
(***************************************************************************)
\* the awaited client.chat.update resolves: return
FinalAttemptOk(r) ==
  /\ pc = "final" /\ r \in inflight /\ r.kind = "final"
  /\ inflight' = inflight \ {r}
  /\ surface' = Shown(r)
  /\ finalDelivered' = TRUE
  /\ pc' = AfterFinal(error)
  /\ UNCHANGED <<envVars, state, consumed, messageTs, attempt, error, finalText,
                 timerVars, statusCalls, finalCalls, posts, termVars, stopCalls,
                 finalFailures, pulseShown, sleeps>>

\* it rejects: sleep before the next iteration, or move on to the loop
\* condition when this was the last attempt
FinalAttemptFail(r) ==
  /\ pc = "final" /\ r \in inflight /\ r.kind = "final"
  /\ finalFailures' = finalFailures + 1
  /\ IF retrySleeps(attempt)
       THEN /\ inflight' = inflight \ {r}
            /\ pc' = "retrySleep"
            /\ UNCHANGED <<attempt, finalCalls>>
       ELSE /\ attempt' = attempt + 1
            /\ IF retryContinues(attempt + 1)
                 THEN /\ inflight' = (inflight \ {r}) \cup
                           {Request("final", finalText, r.ts, TRUE)}
                      /\ finalCalls' = finalCalls + 1
                      /\ pc' = "final"
                 ELSE /\ inflight' = inflight \ {r}
                      /\ pc' = AfterFinal(error)
                      /\ UNCHANGED finalCalls
  /\ UNCHANGED <<envVars, state, consumed, messageTs, error, finalText,
                 timerVars, statusCalls, surface, posts, termVars, stopCalls,
                 finalDelivered, pulseShown, sleeps>>

\* sleep(500) resolves: attempt++ and the loop condition
RetryWake ==
  /\ pc = "retrySleep"
  /\ RetryLoop(attempt + 1, finalText, messageTs, error)
  /\ UNCHANGED <<envVars, state, consumed, messageTs, error, finalText,
                 timerVars, statusCalls, surface, posts, termVars, histVars>>

\* the best-effort post of the error message resolves: a new message shows
\* the error text; throw error
ErrorPostOk ==
  /\ pc = "errorPost"
  /\ surface' = [text |-> posts[Len(posts)], seq |-> 0, kind |-> "error"]
  /\ pc' = "threw"
  /\ UNCHANGED <<envVars, state, consumed, messageTs, attempt, error, finalText,
                 timerVars, inflight, statusCalls, finalCalls, posts, termVars,
                 histVars>>

\* it rejects: `.catch(() => {})` swallows the rejection; throw error
ErrorPostFail ==
  /\ pc = "errorPost"
  /\ pc' = "threw"
  /\ UNCHANGED <<envVars, state, consumed, messageTs, attempt, error, finalText,
                 timerVars, netVars, termVars, histVars>>

(***************************************************************************)
(* The animation timer and the chat.update calls nobody awaits             *)
(***************************************************************************)
\* ANIMATION_INTERVAL elapsed: the callback of setInterval is due
TimerExpire ==
  /\ animationTimer /\ ~tickQueued
  /\ ticks < MaxTicks
  /\ tickQueued' = TRUE
  /\ ticks' = ticks + 1
  /\ UNCHANGED <<envVars, consumerVars, frame, animationTimer, isFinished,
                 netVars, termVars, histVars>>

\* the callback runs between two steps of the consumer.  clearInterval is
\* not assumed to withdraw a callback that is already due: the guards of
\* the callback and of updateSlack decide what it does.
TimerCallback ==
  /\ tickQueued
  /\ tickQueued' = FALSE
  /\ IF tickRuns(isFinished)
       THEN /\ frame' = increment(frame)
            /\ IF updateSlackStarts(messageTs, isFinished)
                 THEN /\ inflight' = inflight \cup
                           {Request("status",
                                    getStatusText(state, increment(frame)),
                                    messageTs, FALSE)}
                      /\ statusCalls' = statusCalls + 1
                 ELSE UNCHANGED <<inflight, statusCalls>>
       ELSE UNCHANGED <<frame, inflight, statusCalls>>
  /\ UNCHANGED <<envVars, consumerVars, animationTimer, isFinished, ticks,
                 finalCalls, surface, posts, termVars, histVars>>

\* a chat.update call of a timer tick takes effect on the message
StatusUpdateOk(r) ==
  /\ r \in inflight /\ ~r.awaited
  /\ inflight' = inflight \ {r}
  /\ surface' = Shown(r)
  /\ pulseShown' = PulseShownWith(Shown(r))
  /\ UNCHANGED <<envVars, consumerVars, timerVars, statusCalls, finalCalls,
                 posts, termVars, stopCalls, finalFailures, finalDelivered,
                 sleeps>>

\* it is rejected (rate limit); updateSlack swallows the rejection
StatusUpdateFail(r) ==
  /\ r \in inflight /\ ~r.awaited
  /\ inflight' = inflight \ {r}
  /\ UNCHANGED <<envVars, consumerVars, timerVars, statusCalls, finalCalls,
                 surface, posts, termVars, histVars>>

SlackNext ==
  \/ BeginSession
  \/ PostInitialOk
  \/ PostInitialFail
  \/ StreamOpened
  \/ StreamOpenFail
  \/ \E c \in SlackChunks : ConsumeChunk(c)
  \/ \E r \in inflight : RenderOk(r)
  \/ \E r \in inflight : RenderFail(r)
  \/ PacingDone
  \/ StreamFail
  \/ StreamEnd
  \/ \E r \in inflight : FinalAttemptOk(r)
  \/ \E r \in inflight : FinalAttemptFail(r)
  \/ RetryWake
  \/ ErrorPostOk
  \/ ErrorPostFail
  \/ TimerExpire
  \/ TimerCallback
  \/ \E r \in inflight : StatusUpdateOk(r)
  \/ \E r \in inflight : StatusUpdateFail(r)

(***************************************************************************)
(* streamToTerminal                                                        *)
(***************************************************************************)
IsSpace(c) == c \in {" ", "\n", "\t", "\r"}

\* String.prototype.trim
RECURSIVE TrimStart(_)
TrimStart(s) ==
  IF Len(s) > 0 /\ IsSpace(s[1]) THEN TrimStart(Tail(s)) ELSE s
RECURSIVE TrimEnd(_)
TrimEnd(s) ==
  IF Len(s) > 0 /\ IsSpace(s[Len(s)])
    THEN TrimEnd(SubSeq(s, 1, Len(s) - 1)) ELSE s
Trim(s) == TrimEnd(TrimStart(s))

\* '\n<warning sign>  No response generated.\n'
NoResponseNotice ==
  <<"\n","warning"," "," ","N","o"," ","r","e","s","p","o","n","s","e"," ",
    "g","e","n","e","r","a","t","e","d",".","\n">>

\* what streamToTerminal writes after the loop
terminalClosing(text) ==
  IF Trim(text) = <<>> THEN NoResponseNotice ELSE <<"\n">>

\* the catch block: console.error(message); throw error
TerminalCatch(err) ==
  /\ error' = err
  /\ stderr' = Append(stderr, err)
  /\ pc' = "threw"

\* mastra.getAgent(agentName); agent.stream is called
TerminalBegin ==
  /\ host = "terminal" /\ pc = "idle"
  /\ IF agentFound(agentRegistered)
       THEN pc' = "opening" /\ UNCHANGED <<error, stderr>>
       ELSE TerminalCatch(NotFoundMessage)
  /\ UNCHANGED <<envVars, state, consumed, messageTs, attempt, finalText,
                 timerVars, netVars, stdout, histVars>>

\* agent.stream resolves
TerminalStreamOpened ==
  /\ host = "terminal" /\ pc = "opening"
  /\ pc' = "streaming"
  /\ UNCHANGED <<envVars, state, consumed, messageTs, attempt, error, finalText,
                 timerVars, netVars, termVars, histVars>>

\* agent.stream rejects
TerminalStreamOpenFail ==
  /\ host = "terminal" /\ pc = "opening"
  /\ TerminalCatch(UpstreamMessage)
  /\ UNCHANGED <<envVars, state, consumed, messageTs, attempt, finalText,
                 timerVars, netVars, stdout, histVars>>

\* fullStream delivers chunk c: one iteration of the loop
TerminalConsumeChunk(c) ==
  /\ host = "terminal" /\ pc = "streaming"
  /\ Len(consumed) < MaxChunks
  /\ consumed' = Append(consumed, c)
  /\ state' = terminalConsume(c, state).state
  /\ stdout' = stdout \o terminalConsume(c, state).written
  /\ UNCHANGED <<envVars, pc, messageTs, attempt, error, finalText, timerVars,
                 netVars, stderr, histVars>>

\* fullStream throws
TerminalStreamFail ==
  /\ host = "terminal" /\ pc = "streaming"
  /\ TerminalCatch(UpstreamMessage)
  /\ UNCHANGED <<envVars, state, consumed, messageTs, attempt, finalText,
                 timerVars, netVars, stdout, histVars>>

\* fullStream ends
TerminalStreamEnd ==
  /\ host = "terminal" /\ pc = "streaming"
  /\ stdout' = stdout \o terminalClosing(state.text)
  /\ pc' = "done"
  /\ UNCHANGED <<envVars, state, consumed, messageTs, attempt, error, finalText,
                 timerVars, netVars, stderr, histVars>>

TerminalNext ==
  \/ TerminalBegin
  \/ TerminalStreamOpened
  \/ TerminalStreamOpenFail
  \/ \E c \in TerminalChunks : TerminalConsumeChunk(c)
  \/ TerminalStreamFail
  \/ TerminalStreamEnd

Next == SlackNext \/ TerminalNext

Spec == Init /\ [][Next]_vars

(***************************************************************************)
(* Fair scheduling                                                         *)
(***************************************************************************)
\* the continuations of the consumers: an awaited call or delay returns, or
\* the chunk sequence ends, normally or with a failure
ConsumerNext ==
  \/ BeginSession
  \/ PostInitialOk
  \/ PostInitialFail
  \/ StreamOpened
  \/ StreamOpenFail
  \/ \E r \in inflight : RenderOk(r)
  \/ \E r \in inflight : RenderFail(r)
  \/ PacingDone
  \/ StreamFail
  \/ StreamEnd
  \/ \E r \in inflight : FinalAttemptOk(r)
  \/ \E r \in inflight : FinalAttemptFail(r)
  \/ RetryWake
  \/ ErrorPostOk
  \/ ErrorPostFail
  \/ TerminalBegin
  \/ TerminalStreamOpened
  \/ TerminalStreamOpenFail
  \/ TerminalStreamFail
  \/ TerminalStreamEnd

\* the event loop runs every continuation of the consumer that is due; every
\* call and delay it awaits returns; the chunk sequence is finite.  Nothing
\* is assumed of the interval callback and of the calls it started: the
\* consumer awaits none of them.
\* the chunks a session is given here: one for each way a chunk acts on the
\* consumer (text, a pulse of either kind, a workflow start, a nested event,
\* a kind the loop has no case for)
LiveChunks ==
  { TextDeltaChunk(Hel),
    ToolCallChunk(ReverseText),
    ToolOutputChunk(KindWorkflowStepStart, Inner(Undefined, AnalyzeText, Undefined)),
    WorkflowStartChunk(Undefined, MyFlow),
    NestedChunk(AgentEventPrefix, KindTextDelta, Inner(Sub, Undefined, Undefined)),
    Chunk(KindFinish, EmptyPayload) }

LiveNext ==
  \/ BeginSession
  \/ PostInitialOk
  \/ PostInitialFail
  \/ StreamOpened
  \/ StreamOpenFail
  \/ \E c \in LiveChunks : ConsumeChunk(c)
  \/ \E r \in inflight : RenderOk(r)
  \/ \E r \in inflight : RenderFail(r)
  \/ PacingDone
  \/ StreamFail
  \/ StreamEnd
  \/ \E r \in inflight : FinalAttemptOk(r)
  \/ \E r \in inflight : FinalAttemptFail(r)
  \/ RetryWake
  \/ ErrorPostOk
  \/ ErrorPostFail
  \/ TimerExpire
  \/ TimerCallback
  \/ \E r \in inflight : StatusUpdateOk(r)
  \/ \E r \in inflight : StatusUpdateFail(r)
  \/ TerminalNext

SpecLive == Init /\ [][LiveNext]_vars /\ WF_vars(ConsumerNext)

(***************************************************************************)
(* Two calls of streamToSlack in one process.  The event loop runs one     *)
(* continuation at a time; the variables of the call that is not running   *)
(* are kept in peer, and Switch makes the other call the running one.      *)
(***************************************************************************)
\* largest number of chunks consumed and intervals elapsed, of the two calls
\* together
MaxJointSteps == 2

\* the variables that streamToSlack declares, and what the model records of
\* its calls to the platform, for the running call
Session ==
  [pc |-> pc, state |-> state, consumed |-> consumed, messageTs |-> messageTs,
   attempt |-> attempt, error |-> error, finalText |-> finalText,
   frame |-> frame, animationTimer |-> animationTimer,
   isFinished |-> isFinished, tickQueued |-> tickQueued, ticks |-> ticks,
   inflight |-> inflight, statusCalls |-> statusCalls,
   finalCalls |-> finalCalls, surface |-> surface, posts |-> posts,
   stopCalls |-> stopCalls, finalFailures |-> finalFailures,
   finalDelivered |-> finalDelivered, pulseShown |-> pulseShown,
   sleeps |-> sleeps]

\* the next continuation the event loop runs belongs to the other call
Switch ==
  /\ host = "slack"
  /\ self' = 3 - self
  /\ peer' = Session
  /\ pc' = peer.pc
  /\ state' = peer.state
  /\ consumed' = peer.consumed
  /\ messageTs' = peer.messageTs
  /\ attempt' = peer.attempt
  /\ error' = peer.error
  /\ finalText' = peer.finalText
  /\ frame' = peer.frame
  /\ animationTimer' = peer.animationTimer
  /\ isFinished' = peer.isFinished
  /\ tickQueued' = peer.tickQueued
  /\ ticks' = peer.ticks
  /\ inflight' = peer.inflight
  /\ statusCalls' = peer.statusCalls
  /\ finalCalls' = peer.finalCalls
  /\ surface' = peer.surface
  /\ posts' = peer.posts
  /\ stopCalls' = peer.stopCalls
  /\ finalFailures' = peer.finalFailures
  /\ finalDelivered' = peer.finalDelivered
  /\ pulseShown' = peer.pulseShown
  /\ sleeps' = peer.sleeps
  /\ UNCHANGED <<host, agentRegistered, route, cli, termVars>>

\* the chunks the two calls are given: one that only changes the display
\* state and one that is rendered at once
JointChunks == {TextDeltaChunk(Hel), ToolCallChunk(ReverseText)}

\* a step of the running call, within what the two calls may consume together
SessionStep ==
  /\ SlackNext
  /\ consumed' # consumed => consumed'[Len(consumed')] \in JointChunks
  /\ Len(consumed') + Len(peer.consumed) + ticks' + peer.ticks
       <= MaxJointSteps

InitTwo == host = "slack" /\ InitCommon

NextTwo == SessionStep \/ Switch

SpecTwo == InitTwo /\ [][NextTwo]_vars

(***************************************************************************)
(* The webhook handler of createSlackEventsRoute and verifySlackRequest    *)
(***************************************************************************)
\* Math.floor(Date.now() / 1000) when the request is handled
Now == 1000

\* `60 * 5`
ToleranceSeconds == 300

Digits == <<"0","1","2","3","4","5","6","7","8","9">>

IsDigit(c) == \E i \in 1..10 : Digits[i] = c

DigitValue(c) == (CHOOSE i \in 1..10 : Digits[i] = c) - 1

RECURSIVE ParseDigits(_, _)
ParseDigits(s, acc) ==
  IF s # <<>> /\ IsDigit(s[1])
    THEN ParseDigits(Tail(s), 10 * acc + DigitValue(s[1]))
    ELSE acc

\* parseInt(string) of a string without sign or leading blanks: the number
\* its leading digits spell, NaN when it starts with no digit
parseInt(s) ==
  IF s # <<>> /\ IsDigit(s[1])
    THEN [nan |-> FALSE, value |-> ParseDigits(s, 0)]
    ELSE [nan |-> TRUE, value |-> 0]

\* a < b of a parsed number and a number: false when a is NaN
LessThan(a, b) == ~a.nan /\ a.value < b

\* config.signingSecret, and a secret that is not the app's
SigningSecret == "secret"
OtherSecret == "other"

\* 'v0=' + createHmac('sha256', secret).update(`v0:${timestamp}:${body}`)
\* .digest('hex'): 67 bytes that stand for the secret and the signed string
Sign(secret, timestamp, body) ==
  [len |-> 67, mac |-> <<secret, timestamp, body>>]

\* a header value that is shorter than a signature
ShortSignature == [len |-> 5, mac |-> <<>>]

\* c.req.header(name) of a header the request does not carry
NoHeader == [len |-> 0, mac |-> <<>>]

\* a header value is truthy
HeaderGiven(h) == h.len > 0

\* crypto.timingSafeEqual of two buffers of one length
timingSafeEqual(a, b) == a = b

\* verifySlackRequest: the timestamp is compared with five minutes ago only
verifySlackRequest(signingSecret, requestSignature, timestamp, body) ==
  LET fiveMinutesAgo == Now - ToleranceSeconds
      mySignature == Sign(signingSecret, timestamp, body) IN
    IF LessThan(parseInt(timestamp), fiveMinutesAgo)
      THEN FALSE
      ELSE IF requestSignature.len # mySignature.len
        THEN FALSE
        ELSE timingSafeEqual(mySignature, requestSignature)

\* payload.event
NoEvent == [present |-> FALSE, bot_id |-> FALSE, subtype |-> FALSE, type |-> "none"]
Event(type, bot, sub) ==
  [present |-> TRUE, bot_id |-> bot, subtype |-> sub, type |-> type]

\* the request bodies: one that JSON.parse rejects, and one payload for each
\* way the handler can take
BadJson == [json |-> FALSE, type |-> "none", event |-> NoEvent]
Payload(type, event) == [json |-> TRUE, type |-> type, event |-> event]
Bodies ==
  { BadJson,
    Payload("url_verification", NoEvent),
    Payload("event_callback", NoEvent),
    Payload("event_callback", Event("app_mention", TRUE, FALSE)),
    Payload("event_callback", Event("message", FALSE, TRUE)),
    Payload("event_callback", Event("app_mention", FALSE, FALSE)),
    Payload("event_callback", Event("message", FALSE, FALSE)),
    Payload("event_callback", Event("reaction_added", FALSE, FALSE)) }

\* x-slack-request-timestamp: missing, empty, older than five minutes, five
\* minutes old, now, more than five minutes ahead, not a number
T699 == <<"6","9","9">>
T700 == <<"7","0","0">>
T1000 == <<"1","0","0","0">>
T1301 == <<"1","3","0","1">>
TNotANumber == <<"s","o","o","n">>
Timestamps == {Undefined, <<>>, T699, T700, T1000, T1301, TNotANumber}

\* x-slack-signature: missing, too short, made with another secret, made
\* for another timestamp, made by Slack for this request
Signatures(timestamp, body) ==
  { NoHeader, ShortSignature,
    Sign(OtherSecret, timestamp, body),
    Sign(SigningSecret, T1000, body),
    Sign(SigningSecret, timestamp, body) }

\* c.json(...)
NoResponse == [status |-> 0, body |-> "none"]
Challenge == [status |-> 200, body |-> "challenge"]
Ok == [status |-> 200, body |-> "ok"]
Misconfigured == [status |-> 500, body |-> "Server misconfigured"]
MissingHeaders == [status |-> 401, body |-> "Missing Slack signature headers"]
InvalidSignature == [status |-> 401, body |-> "Invalid signature"]
FailedToHandle == [status |-> 500, body |-> "Failed to handle event"]

Returns(response) == [response |-> response, starts |-> FALSE]

\* the handler from `await c.req.text()` on: the response it returns before
\* the event is looked at, or Ok with starts telling whether it calls
\* streamToSlack in a task it does not await
handler(r) ==
  IF ~r.body.json THEN Returns(FailedToHandle)
  ELSE IF r.body.type = "url_verification" THEN Returns(Challenge)
  ELSE IF ~r.configured THEN Returns(Misconfigured)
  ELSE IF ~HeaderGiven(r.signature) \/ ~Truthy(r.timestamp)
    THEN Returns(MissingHeaders)
  ELSE IF ~verifySlackRequest(SigningSecret, r.signature, r.timestamp, r.body)
    THEN Returns(InvalidSignature)
  ELSE IF r.body.event.present /\ (r.body.event.bot_id \/ r.body.event.subtype)
    THEN Returns(Ok)
  ELSE [response |-> Ok,
        starts |-> /\ r.body.event.present
                   /\ r.body.event.type \in {"app_mention", "message"}]

\* a variant of responseAfterStart where the handler awaits streamToSlack and
\* its own catch block answers a failure
responseAfterStart_awaits(sessionPc) ==
  IF sessionPc = "threw" THEN FailedToHandle ELSE Ok

\* `return c.json({ ok: true })` after the task was started
responseAfterStart(sessionPc) == Ok

\* largest number of chunks consumed and intervals elapsed of the session a
\* request starts
MaxRouteSteps == 2

InitRoute ==
  /\ host = "webhook"
  /\ agentRegistered \in BOOLEAN
  /\ self = 1
  /\ peer = IdleSession
  /\ cli = NoCli
  /\ \E configured \in BOOLEAN, body \in Bodies, timestamp \in Timestamps :
       \E signature \in Signatures(timestamp, body) :
         route = [pc |-> "received", configured |-> configured, body |-> body,
                  signature |-> signature, timestamp |-> timestamp,
                  response |-> NoResponse, invoked |-> FALSE, caught |-> FALSE]
  /\ pc = "idle"
  /\ state = InitialState
  /\ consumed = <<>>
  /\ messageTs = Undefined
  /\ frame = 0
  /\ animationTimer = FALSE
  /\ isFinished = FALSE
  /\ tickQueued = FALSE
  /\ ticks = 0
  /\ inflight = {}
  /\ statusCalls = 0
  /\ finalCalls = 0
  /\ surface = NoSurface
  /\ posts = <<>>
  /\ attempt = 0
  /\ error = Undefined
  /\ finalText = Undefined
  /\ stdout = <<>>
  /\ stderr = <<>>
  /\ stopCalls = 0
  /\ finalFailures = 0
  /\ finalDelivered = FALSE
  /\ pulseShown = FALSE
  /\ sleeps = 0

\* the handler runs up to its return, or up to the call of streamToSlack
HandleRequest ==
  /\ host = "webhook" /\ route.pc = "received"
  /\ IF handler(route).starts
       THEN /\ route' = [route EXCEPT !.pc = "started", !.invoked = TRUE]
            /\ host' = "slack"
       ELSE /\ route' = [route EXCEPT !.pc = "responded",
                                      !.response = handler(route).response]
            /\ host' = host
  /\ UNCHANGED <<agentRegistered, self, peer, cli, consumerVars, timerVars,
                 netVars, termVars, histVars>>

\* streamToSlack has returned its promise at its first await, the task is
\* not awaited: the handler returns
Respond ==
  /\ route.pc = "started" /\ pc # "idle"
  /\ route' = [route EXCEPT !.pc = "responded",
                            !.response = responseAfterStart(pc)]
  /\ UNCHANGED <<host, agentRegistered, self, peer, cli, consumerVars,
                 timerVars, netVars, termVars, histVars>>

\* the catch block of the task: streamToSlack threw, the error is logged
TaskCatch ==
  /\ route.invoked /\ pc = "threw" /\ ~route.caught
  /\ route' = [route EXCEPT !.caught = TRUE]
  /\ UNCHANGED <<host, agentRegistered, self, peer, cli, consumerVars,
                 timerVars, netVars, termVars, histVars>>

\* a step of the session the handler started
RouteSessionStep ==
  /\ SlackNext
  /\ consumed' # consumed => consumed'[Len(consumed')] \in JointChunks
  /\ Len(consumed') + ticks' <= MaxRouteSteps

NextRoute == HandleRequest \/ Respond \/ TaskCatch \/ RouteSessionStep

SpecRoute == InitRoute /\ [][NextRoute]_vars

(***************************************************************************)
(* The conversation loop of the terminal CLI (main of cli.ts)              *)
(***************************************************************************)
\* largest number of messages typed in one conversation
MaxMessages == 2
\* largest number of chunks of the answer to one message
MaxCliChunks == 1

\* the chunks of an answer: text, and text that is blank
CliChunks == {TextDeltaChunk(Hel), TextDeltaChunk(Blank)}

\* a variant of threadIdFor that takes a new thread identifier at every
\* message
threadIdFor_fresh(messageCount, threadId, now) == now

\* `if (messageCount === 0) threadId = ...Date.now()`: the thread
\* identifier of the call that follows, now being the value of Date.now()
threadIdFor(messageCount, threadId, now) ==
  IF messageCount = 0 THEN now ELSE threadId

\* what a call of streamToTerminal starts with
FreshSession ==
  /\ pc = "idle"
  /\ state = InitialState
  /\ consumed = <<>>
  /\ messageTs = Undefined
  /\ frame = 0
  /\ animationTimer = FALSE
  /\ isFinished = FALSE
  /\ tickQueued = FALSE
  /\ ticks = 0
  /\ inflight = {}
  /\ statusCalls = 0
  /\ finalCalls = 0
  /\ surface = NoSurface
  /\ posts = <<>>
  /\ attempt = 0
  /\ error = Undefined
  /\ finalText = Undefined
  /\ stopCalls = 0
  /\ finalFailures = 0
  /\ finalDelivered = FALSE
  /\ pulseShown = FALSE
  /\ sleeps = 0

\* main up to its loop: resourceId and threadId are made from Date.now()
InitCli ==
  /\ host = "cli"
  /\ agentRegistered \in BOOLEAN
  /\ self = 1
  /\ peer = IdleSession
  /\ route = NoRoute
  /\ cli = [pc |-> "prompt", messageCount |-> 0, now |-> 1, resourceId |-> 1,
            threadId |-> 1, calls |-> <<>>, caught |-> 0]
  /\ FreshSession
  /\ stdout = <<>>
  /\ stderr = <<>>

\* getMessage returned a message: the try block up to the call of
\* streamToTerminal, some time after the last reading of the clock
CliSend ==
  /\ host = "cli" /\ cli.pc = "prompt"
  /\ cli.messageCount < MaxMessages
  /\ LET now == cli.now + 1
         thread == threadIdFor(cli.messageCount, cli.threadId, now)
     IN cli' = [cli EXCEPT !.pc = "streaming", !.now = now,
                           !.threadId = thread,
                           !.messageCount = @ + 1,
                           !.calls = Append(@, [resourceId |-> cli.resourceId,
                                                threadId |-> thread])]
  /\ host' = "terminal"
  /\ pc' = "idle"
  /\ state' = InitialState
  /\ consumed' = <<>>
  /\ error' = Undefined
  /\ UNCHANGED <<agentRegistered, self, peer, route, messageTs, attempt,
                 finalText, timerVars, netVars, termVars, histVars>>

\* streamToTerminal returned, or it threw and the catch block of the loop
\* wrote the message of the error: the loop goes round
CliReturn ==
  /\ host = "terminal" /\ cli.pc = "streaming"
  /\ pc \in {"done", "threw"}
  /\ host' = "cli"
  /\ cli' = [cli EXCEPT !.pc = "prompt",
                        !.caught = IF pc = "threw" THEN @ + 1 ELSE @]
  /\ stderr' = IF pc = "threw" THEN Append(stderr, error) ELSE stderr
  /\ UNCHANGED <<agentRegistered, self, peer, route, consumerVars, timerVars,
                 netVars, stdout, histVars>>

\* getMessage returned null (an empty line, exit or quit): the loop ends
CliExit ==
  /\ host = "cli" /\ cli.pc = "prompt"
  /\ cli' = [cli EXCEPT !.pc = "exited"]
  /\ UNCHANGED <<host, agentRegistered, self, peer, route, consumerVars,
                 timerVars, netVars, termVars, histVars>>

\* a step of the call of streamToTerminal
CliSessionStep ==
  /\ TerminalNext
  /\ consumed' # consumed => consumed'[Len(consumed')] \in CliChunks
  /\ Len(consumed') <= MaxCliChunks

NextCli == CliSend \/ CliReturn \/ CliExit \/ CliSessionStep

SpecCli == InitCli /\ [][NextCli]_vars

(***************************************************************************)
(* The functions on their own: a specification that draws a display state  *)
(* and applies the unwrapper, the loop bodies and stopAnimation to it      *)
(***************************************************************************)
\* largest number of applications to one drawn state
MaxPureSteps == 1
\* largest number of calls of stopAnimation in a row
MaxStops == 2

\* text payloads
TextPayloads == {<<>>, Hel, Lo, Blank, Sub}

\* chunks of every shape the functions tell apart
PureChunks ==
  TerminalChunks \cup
  { NestedChunk(AgentEventPrefix, KindTextDelta, Inner(<<>>, Undefined, Undefined)),
    NestedChunk(AgentEventPrefix, KindTextDelta, NoInner),
    NestedChunk(AgentEventPrefix, KindToolCall, Inner(Sub, Undefined, Undefined)),
    NestedChunk(WorkflowEventPrefix, KindWorkflowStepStart, NoInner),
    NestedChunk(WorkflowEventPrefix, KindWorkflowStepStart,
                Inner(Undefined, <<>>, Undefined)),
    NestedChunk(WorkflowEventPrefix, KindFinish,
                Inner(Undefined, AnalyzeText, Undefined)),
    ToolOutputChunk(KindWorkflowStepStart, Inner(Undefined, Undefined, MyFlow)),
    ToolOutputChunk(KindWorkflowStepStart, Inner(Undefined, AnalyzeText, MyFlow)),
    ToolOutputChunk(KindWorkflowStepStart, Inner(Undefined, <<>>, MyFlow)),
    ToolOutputChunk(KindWorkflowStepStart, NoInner),
    ToolOutputChunk(KindFinish, Inner(Undefined, AnalyzeText, Undefined)),
    ToolOutputChunk(Undefined, NoInner),
    WorkflowStartChunk(AnalyzeText, MyFlow) }

\* chunks without payload field, for the unwrapper alone
BareChunks ==
  { BareChunk(KindObject),
    BareChunk(AgentEventPrefix \o KindTextDelta),
    BareChunk(WorkflowEventPrefix \o KindWorkflowStepStart) }

\* the display states a session holds after at most one chunk
PureStates ==
  {InitialState}
    \cup {terminalConsume(c, InitialState).state : c \in TerminalChunks}
    \cup {slackConsume(c, InitialState).state : c \in SlackChunks}

InitPure ==
  /\ host = "pure"
  /\ agentRegistered = TRUE
  /\ self = 1
  /\ peer = IdleSession
  /\ route = NoRoute
  /\ cli = NoCli
  /\ pc = "drawn"
  /\ state \in PureStates
  /\ consumed = <<>>
  /\ messageTs = Undefined
  /\ frame = 0
  /\ isFinished \in BOOLEAN
  /\ animationTimer \in IF isFinished THEN {FALSE} ELSE BOOLEAN
  /\ tickQueued = FALSE
  /\ ticks = 0
  /\ inflight = {}
  /\ statusCalls = 0
  /\ finalCalls = 0
  /\ surface = NoSurface
  /\ posts = <<>>
  /\ attempt = 0
  /\ error = Undefined
  /\ finalText = Undefined
  /\ stdout = <<>>
  /\ stderr = <<>>
  /\ stopCalls = 0
  /\ finalFailures = 0
  /\ finalDelivered = FALSE
  /\ pulseShown = FALSE
  /\ sleeps = 0

ApplyUnwrapper(c) ==
  /\ host = "pure" /\ Len(consumed) < MaxPureSteps
  /\ consumed' = Append(consumed, c)
  /\ state' = handleNestedChunkEvents(c, state)
  /\ pc' = "unwrapped"
  /\ UNCHANGED <<envVars, messageTs, attempt, error, finalText, timerVars,
                 netVars, termVars, histVars>>

ApplySlackConsume(c) ==
  /\ host = "pure" /\ Len(consumed) < MaxPureSteps
  /\ consumed' = Append(consumed, c)
  /\ state' = slackConsume(c, state).state
  /\ pc' = "slackConsumed"
  /\ UNCHANGED <<envVars, messageTs, attempt, error, finalText, timerVars,
                 netVars, termVars, histVars>>

ApplyTerminalConsume(c) ==
  /\ host = "pure" /\ Len(consumed) < MaxPureSteps
  /\ consumed' = Append(consumed, c)
  /\ state' = terminalConsume(c, state).state
  /\ stdout' = stdout \o terminalConsume(c, state).written
  /\ pc' = "terminalConsumed"
  /\ UNCHANGED <<envVars, messageTs, attempt, error, finalText, timerVars,
                 netVars, stderr, histVars>>

ApplyStopAnimation ==
  /\ host = "pure" /\ stopCalls < MaxStops
  /\ isFinished' = stopAnimation(isFinished, animationTimer).isFinished
  /\ animationTimer' = stopAnimation(isFinished, animationTimer).animationTimer
  /\ stopCalls' = stopCalls + 1
  /\ UNCHANGED <<envVars, consumerVars, frame, tickQueued, ticks, netVars,
                 termVars, finalFailures, finalDelivered, pulseShown, sleeps>>

NextPure ==
  \/ \E c \in PureChunks \cup BareChunks : ApplyUnwrapper(c)
  \/ \E c \in PureChunks : ApplySlackConsume(c)
  \/ \E c \in PureChunks : ApplyTerminalConsume(c)
  \/ ApplyStopAnimation

SpecPure == InitPure /\ [][NextPure]_vars

(***************************************************************************)
(* The Status Renderer on its own: a specification that draws a display    *)
(* state and a frame and calls getStatusText with them                     *)
(***************************************************************************)
\* largest frame getStatusText is called with
MaxFrame == 12
\* largest number of calls with one state and frame
MaxRenders == 2

\* a display state with an agent name.  StreamState has the field and
\* getStatusText reads it; neither consumer writes it.
AgentState ==
  [InitialState EXCEPT !.chunkType = AgentEventPrefix \o KindTextDelta,
                       !.agentName = formatName(AgentName)]

\* the display states a session holds after at most two chunks, and AgentState
RenderStates ==
  PureStates
    \cup {terminalConsume(c, s).state : c \in TerminalChunks, s \in PureStates}
    \cup {slackConsume(c, s).state : c \in SlackChunks, s \in PureStates}
    \cup {AgentState}

InitRender ==
  /\ host = "render"
  /\ agentRegistered = TRUE
  /\ self = 1
  /\ peer = IdleSession
  /\ route = NoRoute
  /\ cli = NoCli
  /\ pc = "drawn"
  /\ state \in RenderStates
  /\ consumed = <<>>
  /\ messageTs = Undefined
  /\ frame \in 0..MaxFrame
  /\ animationTimer = FALSE
  /\ isFinished = FALSE
  /\ tickQueued = FALSE
  /\ ticks = 0
  /\ inflight = {}
  /\ statusCalls = 0
  /\ finalCalls = 0
  /\ surface = NoSurface
  /\ posts = <<>>
  /\ attempt = 0
  /\ error = Undefined
  /\ finalText = Undefined
  /\ stdout = <<>>
  /\ stderr = <<>>
  /\ stopCalls = 0
  /\ finalFailures = 0
  /\ finalDelivered = FALSE
  /\ pulseShown = FALSE
  /\ sleeps = 0

\* getStatusText(state, frame) is called; posts collects what it returned
ApplyGetStatusText ==
  /\ host = "render" /\ Len(posts) < MaxRenders
  /\ posts' = Append(posts, getStatusText(state, frame))
  /\ pc' = "rendered"
  /\ UNCHANGED <<envVars, state, consumed, messageTs, attempt, error, finalText,
                 timerVars, inflight, statusCalls, finalCalls, surface,
                 termVars, histVars>>

NextRender == ApplyGetStatusText

SpecRender == InitRender /\ [][NextRender]_vars

(***************************************************************************)
(* Properties                                                              *)
(***************************************************************************)
\* the texts of the chunks of cs, concatenated in order
RECURSIVE ConcatTexts(_)
ConcatTexts(cs) ==
  IF cs = <<>> THEN <<>> ELSE cs[1].payload.text \o ConcatTexts(Tail(cs))

OnlyTextDeltas(cs) == \A i \in 1..Len(cs) : cs[i].type = KindTextDelta

\* a chunk of kind agent-execution-event-* whose inner event is a text increment
IsNestedAgentText(c) ==
  /\ StartsWith(c.type, AgentEventPrefix)
  /\ c.hasPayload /\ c.payload.type = KindTextDelta
  /\ c.payload.payload.present /\ c.payload.payload.text # Undefined

\* C1: in both consumers, after a sequence of top-level text-delta chunks
\* the accumulated text is the concatenation of their texts in arrival order.
C1_TextIsConcatenation ==
  (host \in {"slack", "terminal"} /\ OnlyTextDeltas(consumed))
    => state.text = ConcatTexts(consumed)

\* the terminal consumer has finished the stream "Hel", "lo!" with "Hello!"
C1_Witness ==
  /\ host = "terminal" /\ pc = "done"
  /\ consumed = <<TextDeltaChunk(Hel), TextDeltaChunk(Lo)>>
  /\ state.text = <<"H","e","l","l","o","!">>

\* C2: in the chat consumer, a stream that ends normally with empty or
\* whitespace-only accumulated text hands the fallback string to the final
\* write; no empty or whitespace-only final message is written.
C2_BlankTextGetsFallback ==
  (host = "slack" /\ error = Undefined /\ finalText # Undefined)
    => /\ Trim(finalText) # <<>>
       /\ Trim(state.text) = <<>> => finalText = FallbackText

\* C3: in both consumers the text of a nested agent text increment is part
\* of the accumulated text at stream end and, in the chat consumer, of the
\* text handed to the final write.
C3_NestedTextIsAccumulated ==
  (error = Undefined /\ (pc = "done" \/ finalText # Undefined))
    => \A i \in 1..Len(consumed) :
         IsNestedAgentText(consumed[i])
           => /\ Includes(state.text, consumed[i].payload.payload.text)
              /\ host = "slack"
                   => Includes(finalText, consumed[i].payload.payload.text)

\* C5: once stopAnimation has been called, no status-render update call is
\* started: the number of update calls of updateSlack stays what it is.
C5_NoRenderAfterStop ==
  [][stopCalls > 0 => statusCalls' = statusCalls]_vars

\* the interval elapsed once, the stream ended before its callback ran, and
\* the callback has run since without advancing the frame
C5_Witness ==
  /\ host = "slack" /\ stopCalls = 1 /\ isFinished
  /\ ticks = 1 /\ ~tickQueued /\ frame = 0 /\ statusCalls = 0
  /\ error = Undefined

\* C6: once a final-write attempt has succeeded the message shows the final
\* text; no status render started earlier takes effect after it.
C6_FinalTextStays ==
  (finalDelivered /\ error = Undefined)
    => (surface.kind = "final" /\ surface.text = finalText)

\* C7: renders take effect on the message in the order in which they were
\* computed; the message never goes back to an older status.
C7_SurfaceInRenderOrder ==
  [][(surface.kind = "status" /\ surface'.kind = "status")
       => surface'.seq >= surface.seq]_vars

\* C8: when streamToSlack has returned or thrown, the finished flag is set
\* and no animation timer is armed.
C8_ExitStopsAnimation ==
  (host = "slack" /\ pc \in {"done", "threw"})
    => (isFinished /\ ~animationTimer)

\* the session threw the resolution error, raised after the timer was started
C8_Witness ==
  /\ host = "slack" /\ pc = "threw" /\ error = NotFoundMessage
  /\ messageTs = MessageTs

\* C10: the final write makes at most 3 update attempts and stops at the
\* first that succeeds: after k failures and a success it has made k + 1
\* attempts, returned, and started no further attempt.
C10_RetryStopsAtFirstSuccess ==
  /\ finalCalls <= 3
  /\ finalDelivered
       => /\ finalCalls = finalFailures + 1
          /\ pc \in {"done", "threw"}
          /\ \A r \in inflight : r.kind # "final"

\* the update failed twice and succeeded at the third attempt
C10_Witness ==
  /\ finalDelivered /\ finalFailures = 2 /\ finalCalls = 3
  /\ error = Undefined /\ pc = "done"

\* C4: from every display state and for every text payload, the unwrapper
\* applied to a nested agent text increment leaves the accumulated text that
\* the consumers' handling of a top-level text-delta with that payload leaves.
C4_NestedEqualsTopLevel ==
  \A p \in TextPayloads :
    LET nested == NestedChunk(AgentEventPrefix, KindTextDelta,
                              Inner(p, Undefined, Undefined))
        unwrapped == handleNestedChunkEvents(nested, state).text
    IN /\ unwrapped = slackConsume(TextDeltaChunk(p), state).state.text
       /\ unwrapped = terminalConsume(TextDeltaChunk(p), state).state.text

\* the unwrapper has folded "sub" into a state whose text was "Hel"
C4_Witness ==
  /\ host = "pure" /\ pc = "unwrapped"
  /\ consumed = <<NestedChunk(AgentEventPrefix, KindTextDelta,
                              Inner(Sub, Undefined, Undefined))>>
  /\ state.text = Hel \o Sub

\* C9: stopAnimation is idempotent and safe with the timer unset: after one
\* call or more the flag is set and the timer unset, and a further call
\* changes nothing.
C9_StopAnimationIdempotent ==
  LET once == stopAnimation(isFinished, animationTimer)
      twice == stopAnimation(once.isFinished, once.animationTimer)
  IN /\ twice = once
     /\ once = [isFinished |-> TRUE, animationTimer |-> FALSE]
     /\ stopCalls > 0 => <<isFinished, animationTimer>> = <<TRUE, FALSE>>

\* stopAnimation has been called twice, the second time with the timer unset
C9_Witness ==
  /\ host = "pure" /\ stopCalls = 2 /\ isFinished /\ ~animationTimer


\* C11: when all 3 attempts of the final write have failed, retrySlackUpdate
\* has returned without raising: no attempt is in flight and no fourth one was
\* made; at the end of a stream that ended normally streamToSlack has then
\* returned, and the catch block was not entered (no error caught, no second
\* stopAnimation, no error post).
C11_ExhaustedRetryReturns ==
  /\ finalCalls <= 3
  /\ (host = "slack" /\ finalFailures = 3)
       => /\ finalCalls = 3
          /\ \A r \in inflight : r.kind # "final"
          /\ pc \in {"done", "threw"}
          /\ finalText = finalResponse(state.text)
               => (pc = "done" /\ error = Undefined /\ stopCalls = 1
                   /\ Len(posts) = 1)

\* a stream with text ended, the three attempts to write it failed and
\* streamToSlack returned; the message still shows a status
C11_Witness ==
  /\ host = "slack" /\ pc = "done" /\ finalFailures = 3 /\ finalCalls = 3
  /\ ~finalDelivered /\ state.text = Hel /\ surface.kind = "status"

\* C12: when agent.stream or the chunk stream fails after the placeholder
\* was posted, the animation is stopped, the error message made from the
\* failure's description (not the partial text) is handed to the retrying
\* final write on the placeholder, and once that write has returned, with a
\* success or with its third failure, streamToSlack has thrown the failure.
C12_StreamFailureReported ==
  (host = "slack" /\ error = UpstreamMessage)
    => /\ isFinished /\ ~animationTimer
       /\ Includes(finalText, UpstreamMessage)
       /\ finalText # finalResponse(state.text)
       /\ \A r \in inflight :
            r.kind = "final" => (r.text = finalText /\ r.ts = MessageTs)
       /\ surface.kind = "final" => surface.text = finalText
       /\ Len(posts) = 1
       /\ pc \in {"final", "retrySleep", "threw"}
       /\ (finalDelivered \/ finalFailures = 3) => pc = "threw"

\* the stream failed after "Hel", the three attempts to write the error
\* message failed, and the failure was thrown
C12_Witness ==
  /\ host = "slack" /\ pc = "threw" /\ error = UpstreamMessage
  /\ state.text = Hel /\ Len(consumed) > 0
  /\ finalFailures = 3 /\ ~finalDelivered

\* C13: when the initial chat.postMessage rejects, no interval is set and no
\* chat.update call is made; the error message is posted once as a new
\* message, and whether that post resolves or rejects streamToSlack throws the
\* failure of the initial post.
C13_PostFailureBestEffort ==
  (host = "slack" /\ error # Undefined /\ messageTs = Undefined)
    => /\ error = PostMessageFailure
       /\ ~animationTimer /\ ticks = 0 /\ ~tickQueued /\ frame = 0
       /\ statusCalls = 0 /\ finalCalls = 0 /\ inflight = {}
       /\ Len(posts) = 2 /\ Includes(posts[2], PostMessageFailure)
       /\ pc \in {"errorPost", "threw"}
       /\ surface.kind \in {"none", "error"}

\* the initial post failed, the post of the error message failed too, and
\* streamToSlack threw the failure of the initial post
C13_Witness ==
  /\ host = "slack" /\ pc = "threw" /\ error = PostMessageFailure
  /\ Len(posts) = 2 /\ surface = NoSurface

IsStepStartOutput(c) ==
  /\ c.type = KindToolOutput /\ c.hasPayload
  /\ c.payload.output.isObject
  /\ c.payload.output.type = KindWorkflowStepStart

\* C15: right after either loop body has handled a tool-output chunk whose
\* output has kind workflow-step-start, the step name is the formatted
\* output.payload.id when there is a non-empty one, else the formatted
\* output.payload.stepId when there is a non-empty one, else 'Step'.
C15_StepNamePriority ==
  (host = "pure" /\ pc \in {"slackConsumed", "terminalConsumed"}
     /\ IsStepStartOutput(consumed[Len(consumed)]))
    => LET p == consumed[Len(consumed)].payload.output.payload
           hasId == p.present /\ p.id # Undefined /\ p.id # <<>>
           hasStepId == p.present /\ p.stepId # Undefined /\ p.stepId # <<>>
       IN state.stepName =
            IF hasId THEN formatName(p.id)
            ELSE IF hasStepId THEN formatName(p.stepId)
            ELSE <<"S","t","e","p">>

\* the loop body of streamToSlack got an output with id "analyze-text" and
\* stepId "my_flow" and took the id
C15_Witness ==
  /\ host = "pure" /\ pc = "slackConsumed"
  /\ consumed = <<ToolOutputChunk(KindWorkflowStepStart,
                                  Inner(Undefined, AnalyzeText, MyFlow))>>
  /\ state.stepName = <<"A","n","a","l","y","z","e"," ","T","e","x","t">>

\* a tool-output chunk whose payload.output is an object
IsObjectOutput(c) ==
  c.type = KindToolOutput /\ c.hasPayload /\ c.payload.output.isObject

\* the chunk streamToSlack consumed last is a workflow step start
LastIsStepStart ==
  consumed # <<>> /\ IsStepStartOutput(consumed[Len(consumed)])

\* C16: in streamToSlack, consuming a tool-output chunk whose output is an
\* object with a kind of its own makes that kind the current kind; when it
\* is workflow-step-start the same step starts exactly one awaited
\* chat.update whose status shows the new step name, and until that call has
\* settled and the delay after it has elapsed no chunk is consumed and no
\* second awaited call is made.
C16_StepStartPulse ==
  [][host = "slack"
       => /\ consumed' # consumed
               => LET c == consumed'[Len(consumed')]
                  IN /\ (IsObjectOutput(c) /\ Truthy(c.payload.output.type))
                          => state'.chunkType = c.payload.output.type
                     /\ IsStepStartOutput(c)
                          => /\ pc' = "render"
                             /\ frame' = frame + 1
                             /\ Cardinality(inflight' \ inflight) = 1
                             /\ \A r \in inflight' \ inflight :
                                  /\ r.awaited /\ r.kind = "status"
                                  /\ r.text = getStatusText(state', frame')
                                  /\ Includes(r.text, state'.stepName)
          /\ (LastIsStepStart /\ pc = "render")
               => /\ consumed' = consumed
                  /\ pc' \in {"render", "pacing"}
                  /\ \A r \in inflight' \ inflight : ~r.awaited
          /\ (LastIsStepStart /\ pc = "pacing")
               => /\ consumed' = consumed
                  /\ pc' \in {"pacing", "streaming"}
                  /\ \A r \in inflight' \ inflight : ~r.awaited]_vars

\* a workflow step start was rendered and paced, and the next chunk, an
\* output with the kind "finish", has been consumed since
C16_Witness ==
  /\ host = "slack" /\ pc = "streaming"
  /\ consumed = <<ToolOutputChunk(KindWorkflowStepStart,
                                  Inner(Undefined, AnalyzeText, Undefined)),
                  ToolOutputChunk(KindFinish, NoInner)>>
  /\ state.chunkType = KindFinish
  /\ state.stepName = <<"A","n","a","l","y","z","e"," ","T","e","x","t">>
  /\ surface.kind = "status" /\ Includes(surface.text, state.stepName)

\* C17: in streamToSlack every tool-call chunk records the formatted tool
\* name, and when the next chunk is consumed the message has shown, since the
\* tool call was consumed, a status that contains that name.
C17_ToolPulseVisible ==
  [][(host = "slack" /\ consumed' # consumed)
       => /\ consumed'[Len(consumed')].type = KindToolCall
               => state'.toolName =
                    formatName(consumed'[Len(consumed')].payload.toolName)
          /\ (consumed # <<>> /\ consumed[Len(consumed)].type = KindToolCall)
               => pulseShown]_vars


\* C18: for a chunk whose kind starts with 'workflow-execution-event-' the
\* unwrapper, when the inner kind is workflow-step-start, sets the current
\* kind to workflow-step-start and the step name to the formatted inner id,
\* or to 'Step' when there is no inner id or an empty one, and changes
\* nothing else; for every other inner kind it changes nothing.
C18_WorkflowNestedStepStart ==
  [][(host = "pure" /\ pc' = "unwrapped" /\ consumed' # consumed)
       => LET c == consumed'[Len(consumed')]
              p == c.payload.payload
              hasId == p.present /\ p.id # Undefined /\ p.id # <<>>
          IN (c.hasPayload /\ StartsWith(c.type, WorkflowEventPrefix))
               => IF c.payload.type = KindWorkflowStepStart
                    THEN state' =
                           [state EXCEPT
                              !.chunkType = KindWorkflowStepStart,
                              !.stepName = IF hasId THEN formatName(p.id)
                                           ELSE <<"S","t","e","p">>]
                    ELSE state' = state]_vars

\* C19: for a chunk whose kind starts with 'agent-execution-event-' the
\* unwrapper, when the inner kind is text-delta and the inner payload has a
\* text, appends that text to the accumulated text and sets the current kind
\* to text-delta, for the empty text too, and changes nothing else; for every
\* other inner kind it changes nothing.
C19_AgentNestedTextDelta ==
  [][(host = "pure" /\ pc' = "unwrapped" /\ consumed' # consumed)
       => LET c == consumed'[Len(consumed')]
              p == c.payload.payload
          IN (c.hasPayload /\ StartsWith(c.type, AgentEventPrefix))
               => IF c.payload.type = KindTextDelta
                    THEN (p.present /\ p.text # Undefined)
                           => state' = [state EXCEPT
                                          !.text = @ \o p.text,
                                          !.chunkType = KindTextDelta]
                    ELSE state' = state]_vars

\* C20: the unwrapper applied to a chunk without payload field leaves the
\* display state as it is, whatever the kind of the chunk.
C20_NoPayloadNoOp ==
  [][(host = "pure" /\ pc' = "unwrapped" /\ consumed' # consumed
        /\ ~consumed'[Len(consumed')].hasPayload)
       => state' = state]_vars

\* the unwrapper was applied to a chunk of kind
\* agent-execution-event-text-delta without payload, on a state with text
C20_Witness ==
  /\ host = "pure" /\ pc = "unwrapped"
  /\ consumed = <<BareChunk(AgentEventPrefix \o KindTextDelta)>>
  /\ state.text = Hel /\ state.chunkType = KindTextDelta


\* the branch getStatusText takes for s
InToolBranch(s) == StartsWith(s.chunkType, ToolPrefix) /\ Truthy(s.toolName)
InWorkflowBranch(s) ==
  ~InToolBranch(s) /\ StartsWith(s.chunkType, WorkflowPrefix)
    /\ Truthy(s.stepName)
InAgentBranch(s) ==
  ~InToolBranch(s) /\ ~InWorkflowBranch(s)
    /\ Includes(s.chunkType, AgentWord) /\ Truthy(s.agentName)

\* C21: every call of getStatusText with one display state and frame returns
\* the same string; with the state fixed the string comes back after 4
\* frames and not earlier in the tool and workflow branches, after 10 frames
\* and not earlier in the agent and default branches.
C21_RendererPeriodic ==
  host = "render"
    => LET text == getStatusText(state, frame)
           period == IF InToolBranch(state) \/ InWorkflowBranch(state)
                       THEN 4 ELSE 10
       IN /\ \A i \in 1..Len(posts) : posts[i] = text
          /\ getStatusText(state, frame + period) = text
          /\ \A k \in 1..(period - 1) : getStatusText(state, frame + k) # text

\* getStatusText was called twice at frame 6 for a tool call and returned
\* the third tool icon both times
C21_Witness ==
  /\ host = "render" /\ Len(posts) = 2 /\ frame = 6
  /\ state.chunkType = KindToolCall
  /\ state.toolName = <<"R","e","v","e","r","s","e"," ","T","e","x","t">>
  /\ posts[1][1] = "wrench" /\ posts[2] = posts[1]

\* the title-cased kinds
TitleStart == <<"S","t","a","r","t">>
TitleTextDelta == <<"T","e","x","t"," ","D","e","l","t","a">>
TitleToolCall == <<"T","o","o","l"," ","C","a","l","l">>
TitleToolOutput == <<"T","o","o","l"," ","O","u","t","p","u","t">>
TitleWorkflowExecutionStart == <<"W","o","r","k","f","l","o","w"," ","E","x","e","c","u","t","i","o","n"," ","S","t","a","r","t">>
TitleWorkflowStepStart == <<"W","o","r","k","f","l","o","w"," ","S","t","e","p"," ","S","t","a","r","t">>
TitleFinish == <<"F","i","n","i","s","h">>
TitleObject == <<"O","b","j","e","c","t">>
TitleAgentTextDelta == <<"A","g","e","n","t"," ","E","x","e","c","u","t","i","o","n"," ","E","v","e","n","t"," ","T","e","x","t"," ","D","e","l","t","a">>
TitleWorkflowNestedStepStart == <<"W","o","r","k","f","l","o","w"," ","E","x","e","c","u","t","i","o","n"," ","E","v","e","n","t"," ","W","o","r","k","f","l","o","w"," ","S","t","e","p"," ","S","t","a","r","t">>

\* the title-cased form of the kinds a session stores
TitleOf(kind) ==
  CASE kind = KindStart -> TitleStart
    [] kind = KindTextDelta -> TitleTextDelta
    [] kind = KindToolCall -> TitleToolCall
    [] kind = KindToolOutput -> TitleToolOutput
    [] kind = KindWorkflowExecutionStart -> TitleWorkflowExecutionStart
    [] kind = KindWorkflowStepStart -> TitleWorkflowStepStart
    [] kind = KindFinish -> TitleFinish
    [] kind = KindObject -> TitleObject
    [] kind = AgentEventPrefix \o KindTextDelta -> TitleAgentTextDelta
    [] kind = WorkflowEventPrefix \o KindWorkflowStepStart
         -> TitleWorkflowNestedStepStart
    [] OTHER -> Undefined

\* C22: for every display state of a session and every frame, what
\* getStatusText returned is "<tool icon> <label>: <tool name>..." when the
\* kind starts with 'tool-' and there is a tool name, else
\* "<workflow icon> <label>: <step name>..." when the kind starts with
\* 'workflow-' and there is a step name, else "<spinner> <label>: <agent
\* name>..." when the kind contains 'agent' and there is an agent name, else
\* "<spinner> <label>..."; the label is the title-cased kind and the icon
\* the element of its set at index frame mod the length of the set.
C22_RendererFormat ==
  (host = "render" /\ posts # <<>>)
    => LET kind == state.chunkType
           label == TitleOf(kind)
           has(name) == name # Undefined /\ name # <<>>
           expected ==
             IF StartsWith(kind, ToolPrefix) /\ has(state.toolName)
               THEN <<TOOL_ICONS[(frame % 4) + 1], " ">> \o label
                      \o <<":", " ">> \o state.toolName \o <<".", ".", ".">>
             ELSE IF StartsWith(kind, WorkflowPrefix) /\ has(state.stepName)
               THEN <<WORKFLOW_ICONS[(frame % 4) + 1], " ">> \o label
                      \o <<":", " ">> \o state.stepName \o <<".", ".", ".">>
             ELSE IF Includes(kind, AgentWord) /\ has(state.agentName)
               THEN <<SPINNER[(frame % 10) + 1], " ">> \o label
                      \o <<":", " ">> \o state.agentName \o <<".", ".", ".">>
             ELSE <<SPINNER[(frame % 10) + 1], " ">> \o label
                    \o <<".", ".", ".">>
       IN /\ label # Undefined
          /\ posts[Len(posts)] = expected

\* getStatusText was called at frame 11 for a state whose kind is
\* workflow-step-start with both a tool name and a step name, and returned
\* the workflow format with the fourth workflow icon
C22_Witness ==
  /\ host = "render" /\ pc = "rendered" /\ frame = 11
  /\ state.chunkType = KindWorkflowStepStart
  /\ Truthy(state.toolName) /\ Truthy(state.stepName)
  /\ posts[1] = <<"sparkles", " ">> \o TitleWorkflowStepStart \o <<":", " ">>
                  \o state.stepName \o <<".", ".", ".">>


\* a chunk whose kind has no case in the switch of the loop bodies
IsOtherKind(c) ==
  c.type \notin {KindTextDelta, KindToolCall, KindToolOutput,
                 KindWorkflowExecutionStart}

C24_TextOnlyGrows ==
  [][/\ StartsWith(state'.text, state.text)
     /\ finalText' # finalText => state' = state]_vars

\* a chat session accumulated "Hel" and then " ", ended, and delivered the
\* accumulated text
C24_Witness ==
  /\ host = "slack" /\ pc = "done" /\ finalDelivered
  /\ consumed = <<TextDeltaChunk(Hel), TextDeltaChunk(Blank)>>
  /\ state.text = Hel \o Blank /\ finalText = state.text


\* C25: in a chat session only the steps that consume a chunk change the
\* display state.  The step in which the interval callback runs leaves it
\* as it is and advances the frame by one (by nothing once the session is
\* finished); the interval elapsing and the settling of a chat.update call
\* the callback started, resolved or rejected, change neither the display
\* state nor the frame nor where the consumer is.
C25_TickLeavesStateAlone ==
  [][host = "slack"
       => /\ consumed' = consumed => state' = state
          /\ (tickQueued /\ ~tickQueued')
               => /\ state' = state
                  /\ frame' = IF isFinished THEN frame ELSE frame + 1
                  /\ UNCHANGED <<pc, consumed, messageTs, isFinished,
                                 animationTimer, surface, error>>
          /\ ticks' # ticks
               => (state' = state /\ frame' = frame /\ pc' = pc)
          /\ (\E r \in inflight \ inflight' : ~r.awaited)
               => (state' = state /\ frame' = frame /\ pc' = pc)]_vars

\* after "Hel" the interval elapsed, its callback advanced the frame to 1
\* and started a render, and the render took effect; the display state is
\* what the chunk left
C25_Witness ==
  /\ host = "slack" /\ pc = "streaming"
  /\ consumed = <<TextDeltaChunk(Hel)>>
  /\ state = [InitialState EXCEPT !.text = Hel, !.chunkType = KindTextDelta]
  /\ ticks = 1 /\ ~tickQueued /\ frame = 1 /\ statusCalls = 1
  /\ surface.seq = 1 /\ inflight = {}


\* a step in which a chat.update call of a status render is rejected
StatusRenderRejected ==
  \E r \in inflight \ inflight' : r.kind = "status" /\ surface' = surface

\* C27: the step in which a chat.update call of a status render is rejected,
\* whether the interval callback or a chunk started it, records no error,
\* leaves the display state, the finished flag and the timer as they are and
\* starts no call; the consumer that awaited the call goes on to the delay,
\* any other consumer stays where it is.  A rejected call of the final write
\* that is not the third is followed by a further attempt.
C27_StatusFailureSwallowed ==
  [][host = "slack"
       => /\ StatusRenderRejected
               => /\ error' = error /\ state' = state
                  /\ isFinished' = isFinished
                  /\ animationTimer' = animationTimer
                  /\ statusCalls' = statusCalls /\ finalCalls' = finalCalls
                  /\ inflight' \subseteq inflight
                  /\ pc' = IF \E r \in inflight \ inflight' : r.awaited
                             THEN "pacing" ELSE pc
          /\ (finalFailures' # finalFailures /\ finalFailures' < 3)
               => pc' = "retrySleep"]_vars

\* the only status render of the session, the one of a tool call, was
\* rejected, and the consumer has consumed the next chunk since
C27_Witness ==
  /\ host = "slack" /\ pc = "streaming" /\ error = Undefined
  /\ consumed = <<ToolCallChunk(ReverseText), TextDeltaChunk(Hel)>>
  /\ statusCalls = 1 /\ inflight = {} /\ surface.seq = 0 /\ ticks = 0
  /\ state.text = Hel


\* the non-empty texts of the top-level text-delta chunks of cs, in order
RECURSIVE TopLevelTexts(_)
TopLevelTexts(cs) ==
  IF cs = <<>> THEN <<>>
  ELSE (IF cs[1].type = KindTextDelta /\ cs[1].payload.text # <<>>
          THEN cs[1].payload.text ELSE <<>>)
         \o TopLevelTexts(Tail(cs))

\* C28: in streamToTerminal, at every moment before the stream has ended
\* the output stream holds the non-empty top-level text increments consumed
\* so far, in arrival order: each is written in the step that consumes its
\* chunk.  After the end it holds them followed by the closing.  The
\* terminal session arms no timer, posts no message and makes no update call.
C28_TerminalWritesAtOnce ==
  host = "terminal"
    => /\ pc # "done" => stdout = TopLevelTexts(consumed)
       /\ pc = "done"
            => stdout = TopLevelTexts(consumed) \o terminalClosing(state.text)
       /\ ~animationTimer /\ ~tickQueued /\ ticks = 0 /\ frame = 0
       /\ posts = <<>> /\ messageTs = Undefined
       /\ inflight = {} /\ statusCalls = 0 /\ finalCalls = 0

\* the terminal consumer has written "Hel" and "lo!" and the stream has not
\* ended
C28_Witness ==
  /\ host = "terminal" /\ pc = "streaming"
  /\ consumed = <<TextDeltaChunk(Hel), TextDeltaChunk(Lo)>>
  /\ stdout = <<"H","e","l","l","o","!">>


\* the phase of streamToSlack the consumer is in: 0 idle, 1 posting the
\* placeholder, 2 streaming, 3 final write, 4 terminated
Phase(p) ==
  CASE p = "idle" -> 0
    [] p = "posting" -> 1
    [] p \in {"opening", "streaming", "render", "pacing"} -> 2
    [] p \in {"final", "retrySleep", "errorPost"} -> 3
    [] p \in {"done", "threw"} -> 4

\* C29: a chat session never goes back to an earlier phase; a chunk is
\* consumed only in the streaming phase, with the placeholder posted and
\* before any final write; when a final-write attempt starts the finished
\* flag is set and the timer cleared; the text of the final write is chosen
\* once; and a terminated session has written either the response (and
\* returned) or the error message (and thrown), the error message going to
\* a new post when there is no placeholder.
C29_ForwardOnly ==
  [][host = "slack"
       => /\ Phase(pc') >= Phase(pc)
          /\ consumed' # consumed
               => /\ Phase(pc) = 2 /\ messageTs # Undefined
                  /\ finalText = Undefined /\ finalCalls = 0
                  /\ Len(posts) = 1 /\ stopCalls = 0
          /\ Phase(pc) >= 3 => consumed' = consumed
          /\ finalCalls' > finalCalls
               => (isFinished' /\ ~animationTimer' /\ stopCalls' > 0)
          /\ finalText # Undefined => finalText' = finalText
          /\ pc = "done"
               => (error = Undefined /\ finalText = finalResponse(state.text)
                   /\ Len(posts) = 1)
          /\ pc = "threw"
               => /\ error # Undefined
                  /\ IF messageTs # Undefined
                       THEN finalText = ErrorText(error) /\ Len(posts) = 1
                       ELSE finalText = Undefined /\ Len(posts) = 2]_vars

\* a chat session consumed two chunks, stopped the animation once, wrote the
\* response at the second attempt and returned
C29_Witness ==
  /\ host = "slack" /\ pc = "done" /\ Len(consumed) = 2
  /\ stopCalls = 1 /\ finalCalls = 2 /\ finalFailures = 1 /\ finalDelivered
  /\ finalText = finalResponse(state.text)


\* C30: when the event loop runs every continuation that is due, every call
\* and delay returns and the chunk sequence ends, a session of either
\* consumer reaches its end: streamToSlack or streamToTerminal has returned
\* or thrown.  Until then the consumer always has a continuation to wait
\* for, the end of the chunk sequence among them.
C30_SessionTerminates ==
  /\ <>(pc \in {"done", "threw"})
  /\ [](pc \notin {"done", "threw"} => ENABLED ConsumerNext)

\* a chat session that ran a timer tick, rendered a tool call and retried
\* the final write has returned
C30_Witness ==
  /\ host = "slack" /\ pc = "done" /\ ticks = 1 /\ ~tickQueued
  /\ inflight = {} /\ finalFailures = 2 /\ finalDelivered
  /\ consumed # <<>> /\ consumed[1].type = KindToolCall


\* C26: two calls of streamToSlack running at once share no mutable state:
\* every step of one call (a chunk, a tick, a render, stopAnimation, a final
\* write) leaves the state, frame, isFinished, animationTimer and messageTs of
\* the other call, and all its other variables, unchanged; and every
\* chat.update call a call of streamToSlack makes names the message that its
\* own chat.postMessage created, never the message of the other call.
OwnHandle(session, ts, requests) ==
  /\ ts \in {Undefined, MessageTsOf(session)}
  /\ \A r \in requests : r.ts = MessageTsOf(session)

C26_SessionsIndependent ==
  /\ [](/\ OwnHandle(self, messageTs, inflight)
        /\ OwnHandle(3 - self, peer.messageTs, peer.inflight)
        /\ MessageTsOf(self) # MessageTsOf(3 - self))
  /\ [][self' = self =>
          /\ peer' = peer
          /\ peer'.state = peer.state /\ peer'.frame = peer.frame
          /\ peer'.isFinished = peer.isFinished
          /\ peer'.animationTimer = peer.animationTimer
          /\ peer'.messageTs = peer.messageTs]_vars

\* the second call has consumed a tool call and awaits the render it made for
\* its own message, while the first call, whose interval elapsed and whose
\* tick is still on its way, is in its final write
C26_Witness ==
  /\ host = "slack" /\ self = 2
  /\ pc = "render" /\ consumed # <<>> /\ consumed[1].type = KindToolCall
  /\ \E r \in inflight : r.kind = "status" /\ r.ts = MessageTsOf(2)
  /\ peer.pc = "final" /\ peer.ticks = 1
  /\ \E r \in peer.inflight : r.kind = "status" /\ r.ts = MessageTsOf(1)
  /\ \E r \in peer.inflight : r.kind = "final" /\ r.ts = MessageTsOf(1)


\* C31: the webhook handler starts a streaming session only for a request
\* that carries both signature headers, whose signature is the one made with
\* the app's signing secret for its timestamp and body, and whose timestamp
\* lies inside the five-minute tolerance window around the current time; a
\* request with a missing header, a wrong signature or a timestamp outside
\* the window never has streamToSlack called for it.
InsideWindow(timestamp) ==
  LET t == parseInt(timestamp) IN
    /\ ~t.nan
    /\ Now - ToleranceSeconds <= t.value
    /\ t.value <= Now + ToleranceSeconds

SignedBySlack(r) ==
  /\ HeaderGiven(r.signature) /\ Truthy(r.timestamp)
  /\ r.signature = Sign(SigningSecret, r.timestamp, r.body)

C31_OnlyVerifiedRequests ==
  route.invoked => SignedBySlack(route) /\ InsideWindow(route.timestamp)


\* C32: the webhook handler answers without waiting for the streaming session
\* it started: it can return as soon as streamToSlack has reached its first
\* await, wherever the session is then; its response is { ok: true } with
\* status 200 whatever the session's outcome and never changes afterwards;
\* and an error thrown by streamToSlack is caught by the task that the handler
\* started, without turning the response into an error.
C32_ResponseDetached ==
  /\ [](route.pc = "started" /\ pc # "idle" => ENABLED Respond)
  /\ [](route.invoked /\ route.pc = "responded" => route.response = Ok)
  /\ [](route.caught => pc = "threw" /\ route.response \in {NoResponse, Ok})
  /\ [][route.pc = "responded" => route' = route \/ TaskCatch]_vars

\* the handler answered { ok: true } while the session was consuming chunks;
\* the stream then failed, streamToSlack threw and the task caught the error
C32_Witness ==
  /\ route.invoked /\ route.pc = "responded" /\ route.response = Ok
  /\ route.caught /\ pc = "threw" /\ consumed # <<>>


\* C33: in a chat session the number of pacing delays taken equals the number
\* of consumed chunks that are a tool call or a tool output whose embedded
\* kind is workflow-step-start (less the one whose forced render is still
\* awaited): each such chunk causes exactly one delay, no other chunk, tick
\* or failure causes one, and the delay is taken when the forced render was
\* rejected or not started as well.
RECURSIVE PulseCount(_)
PulseCount(chunks) ==
  IF chunks = <<>> THEN 0
  ELSE PulseCount(Tail(chunks)) + (IF IsPulseChunk(Head(chunks)) THEN 1 ELSE 0)

C33_DelaysMatchPulses ==
  host = "slack" =>
    sleeps + (IF pc = "render" THEN 1 ELSE 0) = PulseCount(consumed)

\* a tool call and a workflow step were consumed, both forced renders were
\* rejected (no update ever took effect on the message), and two delays
\* were taken
C33_Witness ==
  /\ host = "slack" /\ pc = "streaming" /\ sleeps = 2
  /\ Len(consumed) = 2 /\ consumed[1].type = KindToolCall
  /\ consumed[2].type = KindToolOutput
  /\ statusCalls = 2 /\ inflight = {} /\ surface.seq = 0 /\ ticks = 0


\* C34: the frame counter starts at 0 and never decreases; it goes up by
\* exactly 1 at each run of the interval callback while isFinished is false
\* and at each forced render of a chat session, and at no other step; it
\* never changes once isFinished is true; and the status text a tick sends
\* is computed with the counter already incremented.
IsTickCallback == tickQueued /\ ~tickQueued'

IsSlackChunk == host = "slack" /\ consumed' # consumed

C34_FrameCounts ==
  /\ frame = 0
  /\ [][/\ frame' >= frame
        /\ isFinished => frame' = frame
        /\ IsTickCallback /\ ~isFinished =>
             /\ frame' = frame + 1
             /\ \A r \in inflight' \ inflight :
                  r.text = getStatusText(state, frame')
        /\ IsSlackChunk =>
             frame' = frame + (IF IsPulseChunk(consumed'[Len(consumed')])
                                 THEN 1 ELSE 0)
        /\ ~IsTickCallback /\ ~IsSlackChunk => frame' = frame]_vars

\* the interval callback ran between a tool call and a workflow step: three
\* increments, and the tick's status text on its way carries frame 2
C34_Witness ==
  /\ host = "slack" /\ frame = 3 /\ ticks = 1 /\ ~tickQueued
  /\ Len(consumed) = 2 /\ consumed[1].type = KindToolCall
  /\ IsPulseChunk(consumed[2])
  /\ \E r \in inflight : ~r.awaited /\ r.text = getStatusText(
       slackConsume(consumed[1], InitialState).state, 2)


\* C35: once a tool-call chunk has been processed the tool name is set for
\* the rest of the session: at every later point, whatever chunks, ticks,
\* renders and failures followed, it is the formatted name of the most recent
\* tool-call chunk; before the first tool call it is not set.
FormattedReverseText == <<"R","e","v","e","r","s","e"," ","T","e","x","t">>
FormattedFetchData == <<"F","e","t","c","h"," ","D","a","t","a">>

FormattedToolName(toolName) ==
  IF toolName = ReverseText THEN FormattedReverseText ELSE FormattedFetchData

RECURSIVE LastToolName(_)
LastToolName(chunks) ==
  IF chunks = <<>> THEN Undefined
  ELSE IF chunks[Len(chunks)].type = KindToolCall
    THEN FormattedToolName(chunks[Len(chunks)].payload.toolName)
    ELSE LastToolName(SubSeq(chunks, 1, Len(chunks) - 1))

C35_ToolNameSticks ==
  host \in {"slack", "terminal"} => state.toolName = LastToolName(consumed)

\* a terminal session consumed two tool calls with different names and the
\* stream then failed: the name is that of the second
C35_Witness ==
  /\ host = "terminal" /\ pc = "threw" /\ Len(consumed) = 2
  /\ consumed[1].type = KindToolCall /\ consumed[2].type = KindToolCall
  /\ consumed[1].payload.toolName = ReverseText
  /\ consumed[2].payload.toolName = FetchData
  /\ state.toolName = FormattedFetchData


\* C36: in both hosts a workflow-execution-start chunk sets the workflow name
\* to the formatted payload name, or to the formatted workflow identifier
\* when the name is absent, and sets the step name to 'Starting' whatever it
\* was before; it leaves text and tool name alone, and in a chat session it
\* forces no render and takes no pacing delay.
FormattedAnalyzeText == <<"A","n","a","l","y","z","e"," ","T","e","x","t">>
FormattedMyFlow == <<"M","y"," ","F","l","o","w">>
Starting == <<"S","t","a","r","t","i","n","g">>

IsWorkflowStart ==
  /\ host \in {"slack", "terminal"} /\ consumed' # consumed
  /\ consumed'[Len(consumed')].type = KindWorkflowExecutionStart

C36_WorkflowStart ==
  [][IsWorkflowStart =>
       /\ state'.workflowName =
            IF consumed'[Len(consumed')].payload.name = AnalyzeText
              THEN FormattedAnalyzeText ELSE FormattedMyFlow
       /\ state'.stepName = Starting
       /\ state'.text = state.text /\ state'.toolName = state.toolName
       /\ pc' = pc /\ frame' = frame /\ sleeps' = sleeps
       /\ inflight' = inflight /\ statusCalls' = statusCalls]_vars

\* a chat session consumed a workflow step and then a workflow start without
\* a name: the step name was overwritten, nothing was rendered for it
C36_Witness ==
  /\ host = "slack" /\ pc = "streaming" /\ Len(consumed) = 2
  /\ IsPulseChunk(consumed[1]) /\ consumed[1].type = KindToolOutput
  /\ consumed[2].type = KindWorkflowExecutionStart
  /\ consumed[2].payload.name = Undefined
  /\ state.workflowName = FormattedMyFlow /\ state.stepName = Starting
  /\ statusCalls = 1 /\ sleeps = 1 /\ frame = 1


\* C37: every status text a chat session sends is the Status Renderer applied
\* to the display state and the frame as the session holds them at the await
\* where the call is made, that is, between two steps of chunk processing:
\* never to fields from before a chunk's update mixed with fields from after
\* it; and the message shows a status text only if the session sent it.
NewRequests == inflight' \ inflight

C37_RendersHeldStates ==
  [][host = "slack" =>
       /\ \A r \in NewRequests :
            r.kind = "status" => r.text = getStatusText(state', frame')
       /\ pc = "idle" /\ Len(posts') > Len(posts) =>
            posts'[Len(posts')] = getStatusText(state', frame')
       /\ surface' # surface /\ surface'.kind = "status" =>
            \/ \E r \in inflight : r.kind = "status" /\ surface'.text = r.text
            \/ surface.kind = "none" /\ surface'.text = posts[1]]_vars

\* a workflow step was consumed after a tool call, its forced render took
\* effect: the message shows the status of the state and frame the session
\* holds while it sleeps
C37_Witness ==
  /\ host = "slack" /\ pc = "pacing" /\ Len(consumed) = 2
  /\ consumed[1].type = KindToolCall /\ IsPulseChunk(consumed[2])
  /\ consumed[2].type = KindToolOutput
  /\ surface.kind = "status" /\ surface.text = getStatusText(state, frame)
  /\ frame = 2 /\ ticks = 0


\* C38: a chat session whose initial post succeeded creates exactly one
\* message: it never calls chat.postMessage again, on the error path
\* included; its interval is started, and elapses, only after messageTs was
\* assigned; and every chat.update call it makes, status render or final
\* write, names the ts that the initial post returned.
C38_OneMessage ==
  host = "slack" =>
    /\ messageTs # Undefined => Len(posts) = 1 /\ messageTs = MessageTs
    /\ animationTimer \/ ticks > 0 \/ tickQueued => messageTs # Undefined
    /\ \A r \in inflight : messageTs # Undefined /\ r.ts = messageTs
    /\ statusCalls + finalCalls > 0 => messageTs # Undefined

\* the initial post succeeded, the interval elapsed once, the stream failed
\* and the error text was written by updates of the one message: one post
C38_Witness ==
  /\ host = "slack" /\ pc = "threw" /\ error # Undefined
  /\ messageTs = MessageTs /\ Len(posts) = 1
  /\ ticks = 1 /\ statusCalls = 1 /\ finalCalls >= 1 /\ finalDelivered
  /\ surface.text = ErrorText(error)


\* C39: in a terminal session, for every chunk sequence that ends normally,
\* the characters written to process.stdout while streaming, that is all
\* that was written before the closing newline or the no-response notice,
\* are the accumulated text at the end of the stream.
C39_WrittenIsAccumulated ==
  host = "terminal" /\ pc = "done"
    => stdout = state.text \o terminalClosing(state.text)

\* the calls of streamToTerminal made so far all carry the same resource and
\* thread identifiers
SameIdentifiers ==
  \A i, j \in DOMAIN cli.calls : cli.calls[i] = cli.calls[j]

\* C40: in the terminal variant a stream that ends normally with empty or
\* whitespace-only accumulated text makes the consumer write the no-response
\* notice; a stream failure or a resolution error is written to the error
\* stream and re-raised, and the conversation loop of the CLI catches it,
\* writes it, and prompts again, the next call carrying the same resource
\* and thread identifiers.
C40_TerminalEndings ==
  [][ /\ ( host = "terminal" /\ pc # "done" /\ pc' = "done"
           /\ Trim(state.text) = <<>> )
        => stdout' = stdout \o NoResponseNotice
      /\ ( host = "terminal" /\ pc # "threw" /\ pc' = "threw" )
        => /\ error' \in {UpstreamMessage, NotFoundMessage}
           /\ stderr' = Append(stderr, error')
           /\ stdout' = stdout
      /\ ( cli.pc = "streaming" /\ pc = "threw" /\ cli' # cli )
        => /\ cli'.pc = "prompt"
           /\ cli'.caught = cli.caught + 1
           /\ stderr' = Append(stderr, error)
           /\ cli'.calls = cli.calls
      /\ SameIdentifiers'
    ]_vars

\* a state where the claim's case has happened: the first call failed and
\* was caught by the loop, and the second call ended normally with blank
\* text and the notice written
C40_Witness ==
  /\ cli.pc = "streaming" /\ cli.caught = 1 /\ Len(cli.calls) = 2
  /\ pc = "done" /\ Trim(state.text) = <<>>
  /\ Len(stderr) = 2
  /\ Len(stdout) >= Len(NoResponseNotice)

====
